---- MODULE Spec2Model ----
(***************************************************************************)
(* Model of git-toprepo's src/repo.rs: the push direction (TopRepo::push,  *)
(* rewrite_push_message, resolve_push_repo) and the MonoRepoCommit graph   *)
(* it reads and extends.                                                   *)
(*                                                                         *)
(* Conventions:                                                            *)
(*   - a string (GitPath, message, line) is a sequence of one-character    *)
(*     strings, so prefixes are taken byte by byte as the code does;       *)
(*   - Option<T> is a sequence of length 0 (None) or 1 (Some(x));          *)
(*   - an Rc<MonoRepoCommit> is an index into the heap mono_nodes;         *)
(*   - a HashMap / BTreeMap is a function on its key set.                  *)
(***************************************************************************)
EXTENDS Integers, Sequences, FiniteSets, TLC

VARIABLES
    pc,                     \* position of push(): export, collapse, print, push, done, failed
    result,                 \* value returned by push(): "none" while running, "ok", or the error
    dry_run,                \* the dry_run argument of push()
    config,                 \* GitTopRepoConfig: the generic URLs registered so far
    mono_nodes,             \* heap of MonoRepoCommit nodes (Rc targets)
    monorepo_commits,       \* TopRepoCache.monorepo_commits: mono id -> node
    exported,               \* fast-export commits consumed so far (id, parents)
    n_entries,              \* fast-export entries consumed so far (commits and resets)
    imported_mono_commits,  \* push(): original mono id -> node
    imported_submod_commits,\* push(): commit id -> ImportCommitRef
    fast_import,            \* commits written to fast-import, in order
    to_push_metadata,       \* push(): the push queue
    uncollapsed,            \* the push queue before the collapse, and which entries it kept (history)
    last_split,             \* what the last processed exported commit was and did (history)
    warnings,               \* number of logger.warning calls
    git_push_log,           \* git-push invocations made, in order, with their outcome
    failed_pushes,          \* push(): failure counter
    printed,                \* the "Would run" / "Running" lines printed
    msg_in,                 \* rewrite_push_message: argument
    msg_out,                \* rewrite_push_message: returned (message, topic), None before the call
    refs,                   \* the ref store of the repository: name -> target
    top_to_mono_map,        \* TopRepoCache.top_to_mono_map: top commit id -> mono commit id
    rpc,                    \* position of refilter() / expand_toprepo_refs()
    operation,              \* which of the two is running, with its refs argument
    old_origin_refs,        \* refilter(): the refs under refs/remotes/origin/ read at the start
    new_origin_ref_names,   \* refilter(): translated names of the tips
    toprepo_symbolic_tips,  \* refilter(): (name, target name) of the symbolic tips
    toprepo_object_tip_names, \* names of the tips with an object target
    toprepo_object_tip_ids, \* their object ids
    stop_commits,           \* what get_first_known_commits returned: stop commits and commits to export
    ref_edits,              \* update_refs(): the edits handed to the last transaction
    ref_warnings,           \* logger.warning calls of the run, in order
    ref_result,             \* value returned by the run: "none" while running, "ok", or the error
    run_history,            \* which steps the run has taken (history)
    thin_commits,           \* heap of ThinCommit nodes (Rc targets)
    descendant_call,        \* the last call of is_descendant_of on the graph: self, ancestor, returned
    resolve_in,             \* resolve_push_repo: the mono commit's tree, the path and the config store
    resolve_calls,          \* resolve_push_repo: the calls made on them, each with its push URL and what it returned
    git_dir,                \* TopRepo::create: the directory: whether it is a repository, its git-config, its HEAD
    create_log,             \* TopRepo::create: the calls made, each with its url, the directory before, whether it returned Ok, and the directory after
    upstream,               \* the refs of the repository behind remote.origin.url: name -> object id
    fetched,                \* TopRepo::fetch_toprepo: the number of fetches that succeeded
    inject_in,              \* expand_submodule_ref_onto_head: what the call finds in the repository and the cache
    inject_call             \* expand_submodule_ref_onto_head: the call made, with what it returned and recorded

pushVars == <<pc, result, dry_run, config, mono_nodes, monorepo_commits, exported,
              n_entries, imported_mono_commits, imported_submod_commits, fast_import,
              to_push_metadata, uncollapsed, last_split, warnings, git_push_log,
              failed_pushes, printed>>
msgVars == <<msg_in, msg_out>>
refVars == <<refs, top_to_mono_map, rpc, operation, old_origin_refs, new_origin_ref_names,
             toprepo_symbolic_tips, toprepo_object_tip_names, toprepo_object_tip_ids,
             stop_commits, ref_edits, ref_warnings, ref_result, run_history>>
graphVars == <<thin_commits, descendant_call>>
resolveVars == <<resolve_in, resolve_calls>>
createVars == <<git_dir, create_log, upstream, fetched>>
injectVars == <<inject_in, inject_call>>
vars == <<pushVars, msgVars, refVars, graphVars, resolveVars, createVars, injectVars>>

(***************************************************************************)
(* Bounds                                                                  *)
(***************************************************************************)
\* Longest push queue of the collapse check.
MaxQueue == 3
\* Longest message of the rewrite_push_message check, in chunks.
MaxChunks == 5
\* Most fast-export entries of one push run.
MaxExport == 3
\* Bound on the number of commits built in the commit graphs.
MaxNodes == 3
\* Bound on the number of resolve_push_repo calls made on one input.
MaxCalls == 2

(***************************************************************************)
(* Strings and options                                                     *)
(***************************************************************************)
None == <<>>
Some(x) == <<x>>
IsSome(o) == Len(o) = 1
Unwrap(o) == o[1]

LF == "\n"
CR == "\r"

RECURSIVE Flatten(_)
\* Concatenation of a sequence of sequences.
Flatten(ss) == IF ss = <<>> THEN <<>> ELSE Head(ss) \o Flatten(Tail(ss))

StartsWith(s, p) == Len(s) >= Len(p) /\ SubSeq(s, 1, Len(p)) = p

\* str::strip_prefix / <[u8]>::strip_prefix
StripPrefix(s, p) == IF StartsWith(s, p) THEN Some(SubSeq(s, Len(p) + 1, Len(s))) ELSE None

EndsWith(s, c) == Len(s) >= 1 /\ s[Len(s)] = c

DropLast(s) == SubSeq(s, 1, Len(s) - 1)

\* Index of the first line feed of s, 0 if it has none.
FirstLF(s) == IF \E i \in 1..Len(s) : s[i] = LF
              THEN CHOOSE i \in 1..Len(s) : s[i] = LF /\ \A j \in 1..(i - 1) : s[j] # LF
              ELSE 0

RECURSIVE SplitInclusive(_)
\* str::split_inclusive('\n'): every piece keeps its terminating line feed.
SplitInclusive(s) ==
    IF s = <<>> THEN <<>>
    ELSE LET i == FirstLF(s)
         IN IF i = 0 THEN <<s>>
            ELSE <<SubSeq(s, 1, i)>> \o SplitInclusive(SubSeq(s, i + 1, Len(s)))

\* One item of str::lines(): the terminating "\n" is cut, and then a "\r" before it.
LineOf(piece) ==
    IF ~EndsWith(piece, LF) THEN piece
    ELSE LET l == DropLast(piece)
         IN IF EndsWith(l, CR) THEN DropLast(l) ELSE l

\* str::lines()
Lines(s) == LET ps == SplitInclusive(s) IN [i \in 1..Len(ps) |-> LineOf(ps[i])]

TopicPrefix == <<"T", "o", "p", "i", "c", ":", " ">>
CrumbPrefix == <<"^", "-", "-", " ">>

(***************************************************************************)
(* TopRepo::rewrite_push_message                                           *)
(***************************************************************************)
RECURSIVE RewriteLoop(_, _, _, _)
\* The for loop over message.lines(), from line i on.
RewriteLoop(lines, i, filtered_message, topic) ==
    IF i > Len(lines) THEN [message |-> filtered_message, topic |-> topic]
    ELSE LET line == lines[i]
             topic_name == StripPrefix(line, TopicPrefix)
         IN IF IsSome(topic_name)
               THEN RewriteLoop(lines, i + 1, filtered_message, Some(Unwrap(topic_name)))
            ELSE IF StartsWith(line, CrumbPrefix)
               THEN RewriteLoop(lines, i + 1, filtered_message, topic)
            ELSE RewriteLoop(lines, i + 1, filtered_message \o line \o <<LF>>, topic)

RECURSIVE RewriteLoop_keeps_crumbs(_, _, _, _)
\* (mutant) The loop without its branch for the "^-- " lines.
RewriteLoop_keeps_crumbs(lines, i, filtered_message, topic) ==
    IF i > Len(lines) THEN [message |-> filtered_message, topic |-> topic]
    ELSE LET line == lines[i]
             topic_name == StripPrefix(line, TopicPrefix)
         IN IF IsSome(topic_name)
               THEN RewriteLoop_keeps_crumbs(lines, i + 1, filtered_message,
                                             Some(Unwrap(topic_name)))
            ELSE RewriteLoop_keeps_crumbs(lines, i + 1, filtered_message \o line \o <<LF>>,
                                          topic)

rewrite_push_message_keeps_crumbs(message) ==
    RewriteLoop_keeps_crumbs(Lines(message), 1, <<>>, None)

rewrite_push_message(message) == RewriteLoop(Lines(message), 1, <<>>, None)

(***************************************************************************)
(* GitPath, URLs, RepoName, .gitmodules and the config store               *)
(***************************************************************************)
\* Byte value of the characters paths are made of.
ByteOf(c) ==
    CASE c = "." -> 46 [] c = "/" -> 47 [] c = "a" -> 97 [] c = "b" -> 98
      [] c = "d" -> 100 [] c = "e" -> 101 [] c = "g" -> 103 [] c = "i" -> 105
      [] c = "l" -> 108 [] c = "m" -> 109 [] c = "o" -> 111 [] c = "s" -> 115
      [] c = "t" -> 116 [] c = "u" -> 117 [] c = "x" -> 120 [] c = "y" -> 121
      [] c = "z" -> 122

RECURSIVE PathLess(_, _)
\* Ord for GitPath: byte-wise lexicographic.
PathLess(p, q) ==
    IF q = <<>> THEN FALSE
    ELSE IF p = <<>> THEN TRUE
    ELSE IF ByteOf(Head(p)) # ByteOf(Head(q)) THEN ByteOf(Head(p)) < ByteOf(Head(q))
    ELSE PathLess(Tail(p), Tail(q))

\* GitPath::join
PathJoin(p, q) == IF p = <<>> THEN q ELSE p \o <<"/">> \o q

DotGitmodules == <<".", "g", "i", "t", "m", "o", "d", "u", "l", "e", "s">>

EMPTY_GIX_URL == <<>>

\* SubmoduleUrlExt::join: a URL is its sequence of path segments; a
\* submodule URL is either absolute or climbs `up` segments of the base.
UrlJoin(base, sub) ==
    IF sub.relative
    THEN SubSeq(base, 1, IF Len(base) > sub.up THEN Len(base) - sub.up ELSE 0) \o sub.segs
    ELSE sub.segs

Top == [kind |-> "Top", name |-> <<>>]
SubRepo(name) == [kind |-> "SubRepo", name |-> name]

\* RepoName::to_ref_prefix
to_ref_prefix(repo_name) ==
    IF repo_name.kind = "Top" THEN <<"refs/namespaces/", <<"top">>, "/">>
    ELSE <<"refs/namespaces/", repo_name.name, "/">>

\* GitModulesInfo::get_containing_submodule: the configured submodule whose
\* path is a directory prefix of rel_path.
get_containing_submodule(info, rel_path) ==
    LET hits == { e \in info : StartsWith(rel_path, e.path \o <<"/">>) }
    IN IF hits = {} THEN None ELSE Some(CHOOSE e \in hits : TRUE)

\* GitTopRepoConfig::get_or_insert_from_url: the sub-repo name is the
\* canonical (generic) URL; a URL seen for the first time is registered.
get_or_insert_from_url(cfg, generic_url) ==
    [name |-> generic_url, config |-> cfg \cup {generic_url}]

\* (mutant) Every level reads the .gitmodules file at the root.
GitModulesAt_root(tree, path) == IF DotGitmodules \in DOMAIN tree THEN tree[DotGitmodules] ELSE {}

\* The parsed .gitmodules file found in `tree` at `path`; empty if absent.
GitModulesAt(tree, path) == IF path \in DOMAIN tree THEN tree[path] ELSE {}

(***************************************************************************)
(* TopRepo::resolve_push_repo                                              *)
(***************************************************************************)
\* A submodule URL of .gitmodules that could not be parsed.
InvalidUrl == [relative |-> FALSE, up |-> 0, segs |-> <<"invalid">>, err |-> TRUE]
IsInvalidUrl(sub_url) == "err" \in DOMAIN sub_url

\* (mutant) Only the submodule path is stripped, the "/" after it stays.
StripSubmodule_keeping_slash(rel_path, submod_path) ==
    Unwrap(StripPrefix(rel_path, submod_path))

\* rel_path.strip_prefix(submod_path).strip_prefix(b"/"), each expected to
\* succeed.
StripSubmodule(rel_path, submod_path) ==
    Unwrap(StripPrefix(Unwrap(StripPrefix(rel_path, submod_path)), <<"/">>))

RECURSIVE ResolveLoop_by_push_url(_, _, _, _, _, _, _)
\* (mutant) The sub-repo is looked up by the push URL.
ResolveLoop_by_push_url(tree, repo_name, repo_path, rel_path, generic_url, push_url, cfg) ==
    LET hit == get_containing_submodule(GitModulesAt(tree, PathJoin(repo_path, DotGitmodules)),
                                        rel_path)
    IN IF ~IsSome(hit)
       THEN [repo_name |-> repo_name, submod_path |-> repo_path, rel_path |-> rel_path,
             push_url |-> push_url, config |-> cfg, err |-> "none",
             rel_paths |-> <<rel_path>>]
       ELSE LET submod_path == Unwrap(hit).path
                sub_url == Unwrap(hit).url
                stripped == StripSubmodule(rel_path, submod_path)
                got == get_or_insert_from_url(cfg, UrlJoin(push_url, sub_url))
            IN IF IsInvalidUrl(sub_url)
               THEN [repo_name |-> repo_name, submod_path |-> PathJoin(repo_path, submod_path),
                     rel_path |-> stripped, push_url |-> push_url, config |-> cfg,
                     err |-> "invalid submodule url", rel_paths |-> <<rel_path, stripped>>]
               ELSE [ResolveLoop_by_push_url(tree, SubRepo(got.name),
                        PathJoin(repo_path, submod_path), stripped,
                        UrlJoin(generic_url, sub_url), UrlJoin(push_url, sub_url), got.config)
                     EXCEPT !.rel_paths = <<rel_path>> \o @]

RECURSIVE ResolveLoop(_, _, _, _, _, _, _)
\* The loop of resolve_push_repo, one submodule level per iteration. When
\* it bails out on a submodule URL that could not be parsed, err is set and
\* the other fields are the locals of then. rel_paths lists the values
\* rel_path took, one per time the loop was entered (history).
ResolveLoop(tree, repo_name, repo_path, rel_path, generic_url, push_url, cfg) ==
    LET dot_gitmodules_path == PathJoin(repo_path, DotGitmodules)
        git_modules_info == GitModulesAt(tree, dot_gitmodules_path)
        hit == get_containing_submodule(git_modules_info, rel_path)
    IN IF ~IsSome(hit)
       THEN [repo_name |-> repo_name, submod_path |-> repo_path, rel_path |-> rel_path,
             push_url |-> push_url, config |-> cfg, err |-> "none",
             rel_paths |-> <<rel_path>>]
       ELSE LET submod_path == Unwrap(hit).path
                sub_url == Unwrap(hit).url
                stripped == StripSubmodule(rel_path, submod_path)
                new_generic == UrlJoin(generic_url, sub_url)
                got == get_or_insert_from_url(cfg, new_generic)
            IN IF IsInvalidUrl(sub_url)
               THEN [repo_name |-> repo_name, submod_path |-> PathJoin(repo_path, submod_path),
                     rel_path |-> stripped, push_url |-> push_url, config |-> cfg,
                     err |-> "invalid submodule url", rel_paths |-> <<rel_path, stripped>>]
               ELSE [ResolveLoop(tree, SubRepo(got.name), PathJoin(repo_path, submod_path),
                                 stripped, new_generic, UrlJoin(push_url, sub_url), got.config)
                     EXCEPT !.rel_paths = <<rel_path>> \o @]

\* (mutant) The push URL is joined from the empty sentinel too.
resolve_push_repo_from_sentinel(tree, path, push_url, cfg) ==
    ResolveLoop(tree, Top, <<>>, path, EMPTY_GIX_URL, EMPTY_GIX_URL, cfg)

resolve_push_repo(tree, path, push_url, cfg) ==
    ResolveLoop(tree, Top, <<>>, path, EMPTY_GIX_URL, push_url, cfg)

(***************************************************************************)
(* MonoRepoCommit, ExpandedSubmodule                                       *)
(***************************************************************************)
MonoParent(n) == [kind |-> "Mono", node |-> n]
OriginalSubmodParent(path, commit_id) ==
    [kind |-> "OriginalSubmod", path |-> path, commit_id |-> commit_id]

\* ExpandedSubmodule: Expanded, CommitMissingInSubRepo and
\* RegressedNotFullyImplemented carry a SubmoduleContent; KeptAsSubmodule
\* and UnknownSubmodule only a commit id (their repo_name is unused).
Submod(kind, repo_name, commit_id) ==
    [kind |-> kind, repo_name |-> repo_name, commit_id |-> commit_id]

Expanded(submod) == [kind |-> "Expanded", submod |-> submod]
Removed == [kind |-> "Removed"]

\* ExpandedSubmodule::get_known_submod
get_known_submod(submod) ==
    IF submod.kind \in {"Expanded", "CommitMissingInSubRepo", "RegressedNotFullyImplemented"}
    THEN Some(submod) ELSE None

\* ExpandedSubmodule::get_orig_commit_id
get_orig_commit_id(submod) == submod.commit_id

Max(S) == CHOOSE x \in S : \A y \in S : y <= x

\* (mutant) Every parent counts for the depth, a submodule parent as a
\* commit of depth 0.
MonoRepoCommit_new_rc_counting_all_parents(nodes, parents, top_bump, submodule_bumps) ==
    LET depths == { (IF parents[i].kind = "Mono" THEN nodes[parents[i].node].depth ELSE 0) + 1 :
                      i \in 1..Len(parents) }
        inherited == IF parents # <<>> /\ parents[1].kind = "Mono"
                     THEN nodes[parents[1].node].submodule_paths ELSE {}
        added == { p \in DOMAIN submodule_bumps : submodule_bumps[p].kind = "Expanded" }
        removed == { p \in DOMAIN submodule_bumps : submodule_bumps[p].kind = "Removed" }
    IN [parents |-> parents,
        depth |-> IF depths = {} THEN 0 ELSE Max(depths),
        top_bump |-> top_bump,
        submodule_bumps |-> submodule_bumps,
        submodule_paths |-> (inherited \cup added) \ removed]

\* MonoRepoCommit::new_rc; `nodes` is the heap the parents live in.
MonoRepoCommit_new_rc(nodes, parents, top_bump, submodule_bumps) ==
    LET depths == { nodes[parents[i].node].depth + 1 :
                      i \in { j \in 1..Len(parents) : parents[j].kind = "Mono" } }
        inherited == IF parents # <<>> /\ parents[1].kind = "Mono"
                     THEN nodes[parents[1].node].submodule_paths ELSE {}
        added == { p \in DOMAIN submodule_bumps : submodule_bumps[p].kind = "Expanded" }
        removed == { p \in DOMAIN submodule_bumps : submodule_bumps[p].kind = "Removed" }
    IN [parents |-> parents,
        depth |-> IF depths = {} THEN 0 ELSE Max(depths),
        top_bump |-> top_bump,
        submodule_bumps |-> submodule_bumps,
        submodule_paths |-> (inherited \cup added) \ removed]

(***************************************************************************)
(* BumpCache: the nearest bump along the first-parent chain                *)
(***************************************************************************)
FirstMonoParent(nodes, n) ==
    LET ps == nodes[n].parents
    IN IF ps # <<>> /\ ps[1].kind = "Mono" THEN Some(ps[1].node) ELSE None

RECURSIVE get_top_bump(_, _)
get_top_bump(nodes, n) ==
    IF IsSome(nodes[n].top_bump) THEN nodes[n].top_bump
    ELSE LET fp == FirstMonoParent(nodes, n)
         IN IF IsSome(fp) THEN get_top_bump(nodes, Unwrap(fp)) ELSE None

RECURSIVE get_submodule(_, _, _)
get_submodule(nodes, n, path) ==
    IF path \in DOMAIN nodes[n].submodule_bumps THEN Some(nodes[n].submodule_bumps[path])
    ELSE LET fp == FirstMonoParent(nodes, n)
         IN IF IsSome(fp) THEN get_submodule(nodes, Unwrap(fp), path) ELSE None

\* The submodule at `path` if it is there, resolved, and of repo `sub_repo_name`.
get_some_submodule(nodes, n, path, sub_repo_name) ==
    LET bump == get_submodule(nodes, n, path)
    IN IF IsSome(bump) /\ Unwrap(bump).kind = "Expanded"
          /\ IsSome(get_known_submod(Unwrap(bump).submod))
          /\ Unwrap(bump).submod.repo_name = sub_repo_name
       THEN Some(Unwrap(bump).submod) ELSE None

(***************************************************************************)
(* fast-import: commits written and the object ids they get                *)
(***************************************************************************)
MarkRef(mark) == [kind |-> "Mark", v |-> mark]
CommitIdRef(id) == [kind |-> "CommitId", v |-> id]

\* FastImportRepoDedup::get_object_id
get_object_id(log, ref) == IF ref.kind = "Mark" THEN log[ref.v].id ELSE ref.v

\* The id of a commit about to be written: that of an identical commit
\* written before (same parents, changes and message), else a new one.
NewObjectId(log, parents, file_changes, message) ==
    LET same == { j \in 1..Len(log) :
                    /\ [i \in 1..Len(log[j].parents) |-> get_object_id(log, log[j].parents[i])]
                         = [i \in 1..Len(parents) |-> get_object_id(log, parents[i])]
                    /\ log[j].file_changes = file_changes
                    /\ log[j].message = message }
    IN IF same = {} THEN 200 + Len(log) + 1 ELSE log[CHOOSE j \in same : TRUE].id

\* FastImportRepoDedup::write_commit: the log with the commit appended
\* under the next mark.
write_commit(log, commit) ==
    Append(log, [branch |-> commit.branch, message |-> commit.message,
                 file_changes |-> commit.file_changes, parents |-> commit.parents,
                 origin |-> commit.origin,
                 id |-> NewObjectId(log, commit.parents, commit.file_changes,
                                    commit.message)])

(***************************************************************************)
(* TopRepo::push: splitting one exported mono commit                       *)
(***************************************************************************)
MapPut(m, k, v) == [x \in DOMAIN m \cup {k} |-> IF x = k THEN v ELSE m[x]]

RECURSIVE Unique(_)
\* Itertools::unique: the first occurrence of every element, in order.
Unique(s) ==
    IF s = <<>> THEN <<>>
    ELSE LET rest == Unique(DropLast(s))
             x == s[Len(s)]
         IN IF \E i \in 1..Len(rest) : rest[i] = x THEN rest ELSE Append(rest, x)

\* The ChangedFile pushed into a group: the path relative to the owning
\* repository, and the change.
\* (mutant) The file change keeps its path in the mono repository.
ChangedFile_mono_path(resolved, fc) == [path |-> fc.path, change |-> fc.change]

ChangedFile(resolved, fc) == [path |-> resolved.rel_path, change |-> fc.change]

RECURSIVE GroupFileChanges(_, _, _, _, _)
\* The loop filling grouped_file_changes, from file change i on; every
\* resolve_push_repo call may register a URL in the config. (The submodule
\* URLs of ExportedTree all parse, so no call of a push run bails out.)
GroupFileChanges(tree, file_changes, i, top_push_url, acc) ==
    IF i > Len(file_changes) THEN acc
    ELSE LET fc == file_changes[i]
             r == resolve_push_repo(tree, fc.path, top_push_url, acc.config)
             key == <<r.submod_path, r.repo_name, r.push_url>>
             old == IF key \in DOMAIN acc.groups THEN acc.groups[key] ELSE <<>>
             changed_file == ChangedFile(r, fc)
         IN GroupFileChanges(tree, file_changes, i + 1, top_push_url,
                [groups |-> MapPut(acc.groups, key, Append(old, changed_file)),
                 config |-> r.config])

RECURSIVE SortedKeys(_)
\* Iteration order of the BTreeMap: ascending keys (the mount path decides,
\* as one commit never has two groups at one mount path).
SortedKeys(keys) ==
    IF keys = {} THEN <<>>
    ELSE LET least == CHOOSE k \in keys : \A o \in keys : ~PathLess(o[1], k[1])
         IN <<least>> \o SortedKeys(keys \ {least})

\* parents_commit_ids of one group.
\* (mutant) The parents are not deduplicated.
ParentsCommitIds_with_duplicates(nodes, mono_parents, repo_name, abs_sub_path) ==
    Flatten([i \in 1..Len(mono_parents) |->
        IF repo_name.kind = "Top" THEN get_top_bump(nodes, mono_parents[i])
        ELSE LET parent_submod == get_some_submodule(nodes, mono_parents[i], abs_sub_path,
                                                     repo_name.name)
             IN IF IsSome(parent_submod) THEN Some(get_orig_commit_id(Unwrap(parent_submod)))
                ELSE None])

ParentsCommitIds(nodes, mono_parents, repo_name, abs_sub_path) ==
    Unique(Flatten([i \in 1..Len(mono_parents) |->
        IF repo_name.kind = "Top" THEN get_top_bump(nodes, mono_parents[i])
        ELSE LET parent_submod == get_some_submodule(nodes, mono_parents[i], abs_sub_path,
                                                     repo_name.name)
             IN IF IsSome(parent_submod) THEN Some(get_orig_commit_id(Unwrap(parent_submod)))
                ELSE None]))

\* (mutant) Every parent is named by its commit id.
ParentRef_always_commit_id(submod_commits, parent_submod_id) == CommitIdRef(parent_submod_id)

\* The ImportCommitRef of a parent: that of a commit imported in this run,
\* else the plain commit id.
ParentRef(submod_commits, parent_submod_id) ==
    IF parent_submod_id \in DOMAIN submod_commits THEN submod_commits[parent_submod_id]
    ELSE CommitIdRef(parent_submod_id)

\* (mutant) The loop never bails out.
ParentsMissing_never(parents) == FALSE

\* The check that bails out of the loop.
ParentsMissing(parents) == parents = <<>>

ErrTopNoParents == "no parents with content outside of the submodules"
ErrSubNoGitlink == "does not exist as a git-link in any parent"

\* What becomes of a group whose parent list is empty.
EmptyParentsError(repo_name) ==
    IF repo_name.kind = "Top" THEN ErrTopNoParents ELSE ErrSubNoGitlink

\* (top_bump, submodule_bumps) recorded for a group's commit.
RecordedBumps(repo_name, abs_sub_path, import_commit_id) ==
    IF repo_name.kind = "Top"
    THEN [top_bump |-> Some(import_commit_id), submodule_bumps |-> <<>>]
    ELSE [top_bump |-> None,
          submodule_bumps |-> MapPut(<<>>, abs_sub_path,
              Expanded(Submod("Expanded", repo_name.name, import_commit_id)))]

\* One iteration of the loop over grouped_file_changes. st holds the
\* variables the loop updates; st.err is set when the iteration bails out.
SplitGroup(st, key, file_changes, mono_parents, original_id, message, topic) ==
    LET abs_sub_path == key[1]
        repo_name == key[2]
        push_url == key[3]
        push_branch == to_ref_prefix(repo_name) \o <<"push">>
        parents_commit_ids == ParentsCommitIds(st.nodes, mono_parents, repo_name, abs_sub_path)
        parents == [i \in 1..Len(parents_commit_ids) |->
                      ParentRef(st.submod_commits, parents_commit_ids[i])]
        log == write_commit(st.log, [branch |-> push_branch, message |-> message,
                                     file_changes |-> file_changes, parents |-> parents,
                                     origin |-> original_id])
        import_ref == MarkRef(Len(log))
        import_commit_id == get_object_id(log, import_ref)
        bumps == RecordedBumps(repo_name, abs_sub_path, import_commit_id)
        mono_commit == MonoRepoCommit_new_rc(st.nodes,
                           [i \in 1..Len(mono_parents) |-> MonoParent(mono_parents[i])],
                           bumps.top_bump, bumps.submodule_bumps)
    IN IF ParentsMissing(parents)
       THEN [st EXCEPT !.err = EmptyParentsError(repo_name)]
       ELSE [st EXCEPT
               !.log = log,
               !.submod_commits = MapPut(st.submod_commits, import_commit_id, import_ref),
               !.nodes = Append(st.nodes, mono_commit),
               !.mono_commits = MapPut(st.mono_commits, original_id, Len(st.nodes) + 1),
               !.queue = Append(st.queue, [push_url |-> push_url, topic |-> topic,
                                           commit_id |-> import_commit_id,
                                           parents |-> parents_commit_ids])]

RECURSIVE SplitGroups(_, _, _, _, _, _, _, _)
\* The loop over grouped_file_changes, from group i on.
SplitGroups(st, keys, i, groups, mono_parents, original_id, message, topic) ==
    IF i > Len(keys) \/ st.err # "none" THEN st
    ELSE SplitGroups(SplitGroup(st, keys[i], groups[keys[i]], mono_parents, original_id,
                                message, topic),
                     keys, i + 1, groups, mono_parents, original_id, message, topic)

(***************************************************************************)
(* TopRepo::push: collapsing the push queue                                *)
(***************************************************************************)
Reverse(s) == [i \in 1..Len(s) |-> s[Len(s) + 1 - i]]

MapRemove(m, k) == [x \in DOMAIN m \ {k} |-> m[x]]

\* (mutant) Nothing is ever redundant.
IsNeeded_always(redundant_pushes, k, topic) == TRUE

\* (mutant) The topic of the later push is not compared.
IsNeeded_any_topic(redundant_pushes, k, topic) == k \notin DOMAIN redundant_pushes

\* is_needed of the retain closure: the entry is redundant when the map
\* holds its topic for its (url, commit).
IsNeeded(redundant_pushes, k, topic) ==
    ~(k \in DOMAIN redundant_pushes /\ redundant_pushes[k] = topic)

RECURSIVE Retain(_, _, _, _)
\* to_push_metadata.retain(..) over the reversed queue q, from entry i on:
\* the value of is_needed for every entry.
Retain(q, i, redundant_pushes, needed) ==
    IF i > Len(q) THEN needed
    ELSE LET e == q[i]
             k == <<e.push_url, e.commit_id>>
             removed == MapRemove(redundant_pushes, k)
             keys == { <<e.push_url, e.parents[j]>> : j \in 1..Len(e.parents) }
             inserted == [x \in DOMAIN removed \cup keys |->
                            IF x \in keys THEN e.topic ELSE removed[x]]
         IN Retain(q, i + 1, inserted,
                   Append(needed, IsNeeded(redundant_pushes, k, e.topic)))

\* reverse, retain, reverse: for every entry of the queue, whether it stays.
NeededPushes(queue) == Reverse(Retain(Reverse(queue), 1, <<>>, <<>>))

\* (mutant) The entries that stay, without the second reverse.
Retained_without_second_reverse(queue, needed) ==
    LET q == Reverse(queue)
        kept == SelectSeq([i \in 1..Len(q) |-> <<q[i], Reverse(needed)[i]>>], LAMBDA x : x[2])
    IN [i \in 1..Len(kept) |-> kept[i][1]]

RECURSIVE Retained(_, _)
\* The entries that stay, in queue order.
Retained(queue, needed) ==
    IF queue = <<>> THEN <<>>
    ELSE Retained(DropLast(queue), DropLast(needed))
           \o (IF needed[Len(needed)] THEN <<queue[Len(queue)]>> ELSE <<>>)

(***************************************************************************)
(* The push run: its inputs                                                *)
(***************************************************************************)
RelUrl(up, segs) == [relative |-> TRUE, up |-> up, segs |-> segs]

\* The .gitmodules files in the trees of the exported mono commits: "a" and
\* "b" are submodules of the top repo, "i" is a submodule of "a".
ExportedTree ==
    [p \in {DotGitmodules, PathJoin(<<"a">>, DotGitmodules)} |->
        IF p = DotGitmodules
        THEN {[path |-> <<"a">>, url |-> RelUrl(1, <<"a">>)],
              [path |-> <<"b">>, url |-> RelUrl(1, <<"b">>)]}
        ELSE {[path |-> <<"i">>, url |-> RelUrl(1, <<"i">>)]}]

TopPushUrl == <<"srv", "top">>

\* The paths an exported commit may change; a commit may change none.
ChangedPaths ==
    { <<>>,
      <<<<"t">>>>,
      <<<<"a", "/", "x">>>>,
      <<<<"a", "/", "x">>, <<"b", "/", "y">>>> }

\* The messages an exported commit may carry: without and with a topic.
PushMessages ==
    { <<"m", LF>> \o CrumbPrefix \o <<"a", LF>>,
      <<"m", LF>> \o TopicPrefix \o <<"X", LF>> }

\* The cache before the run. Node 1 is a root with top content and
\* submodule "a"; node 2, its child, adds submodule "b"; node 3 has a
\* submodule commit as its only parent and no top content, and its "b" could
\* not be resolved.
CacheNode1 ==
    MonoRepoCommit_new_rc(<<>>, <<>>, Some(11),
        MapPut(<<>>, <<"a">>, Expanded(Submod("Expanded", <<"a">>, 21))))
CacheNode2 ==
    MonoRepoCommit_new_rc(<<CacheNode1>>, <<MonoParent(1)>>, Some(12),
        MapPut(<<>>, <<"b">>, Expanded(Submod("Expanded", <<"b">>, 22))))
CacheNode3 ==
    MonoRepoCommit_new_rc(<<CacheNode1, CacheNode2>>,
        <<OriginalSubmodParent(<<"a">>, 20)>>, None,
        MapPut(MapPut(<<>>, <<"a">>, Expanded(Submod("Expanded", <<"a">>, 21))),
               <<"b">>, Expanded(Submod("UnknownSubmodule", <<>>, 23))))

\* Mono commit ids a new commit may name as parents: nodes 2 and 3 of the
\* cache and the commits exported before it, oldest first.
KnownMonoIds == <<2, 3>> \o [i \in 1..Len(exported) |-> exported[i].id]

\* Parent lists of an exported commit: one known commit, one commit unknown
\* to the cache (9), or a merge of the two newest known commits.
ParentChoices ==
    { <<KnownMonoIds[i]>> : i \in 1..Len(KnownMonoIds) }
      \cup { <<9>> }
      \cup { <<KnownMonoIds[Len(KnownMonoIds)], KnownMonoIds[Len(KnownMonoIds) - 1]>> }

\* The content an exported commit writes is numbered by its generation in
\* the exported history: a commit never writes what its parent wrote, and
\* commits of one generation write the same.
Generation(parents) ==
    1 + Max({0} \cup { exported[i].generation :
                         i \in { k \in 1..Len(exported) :
                                   \E j \in 1..Len(parents) : parents[j] = exported[k].id } })

RECURSIVE ExportedAncestors(_)
\* The mono ids reachable from id through the parents of exported commits.
ExportedAncestors(id) ==
    {id} \cup UNION { UNION { ExportedAncestors(exported[i].parents[j]) :
                                j \in 1..Len(exported[i].parents) } :
                      i \in { k \in 1..Len(exported) : exported[k].id = id } }

\* fast-export walks the history of one ref: when the stream ends, every
\* exported commit is the last one or an ancestor of it.
StreamComplete ==
    IF exported = <<>> THEN TRUE
    ELSE { exported[i].id : i \in 1..Len(exported) }
           \subseteq ExportedAncestors(exported[Len(exported)].id)

(***************************************************************************)
(* The push run: TopRepo::push                                             *)
(***************************************************************************)
\* refilter() and expand_toprepo_refs() are not running, on a repository
\* without refs and with an empty cache.
RefsIdle ==
    /\ refs = <<>>
    /\ top_to_mono_map = <<>>
    /\ rpc = "idle"
    /\ operation = None
    /\ old_origin_refs = <<>>
    /\ new_origin_ref_names = {}
    /\ toprepo_symbolic_tips = <<>>
    /\ toprepo_object_tip_names = <<>>
    /\ toprepo_object_tip_ids = <<>>
    /\ stop_commits = None
    /\ ref_edits = <<>>
    /\ ref_warnings = <<>>
    /\ ref_result = "none"
    /\ run_history = <<>>

\* No ThinCommit has been built.
GraphIdle ==
    /\ thin_commits = <<>>
    /\ descendant_call = None

\* expand_submodule_ref_onto_head has no input and has not been called.
InjectIdle == inject_in = None /\ inject_call = None

\* No directory is being set up and nothing is fetched.
CreateIdle ==
    /\ git_dir = None
    /\ create_log = <<>>
    /\ upstream = <<>>
    /\ fetched = 0

\* resolve_push_repo has no arguments and has not been called.
ResolveIdle ==
    /\ resolve_in = None
    /\ resolve_calls = <<>>

Init ==
    /\ pc = "export"
    /\ result = "none"
    /\ dry_run \in BOOLEAN
    /\ config = {<<"a">>}
    /\ mono_nodes = <<CacheNode1, CacheNode2, CacheNode3>>
    /\ monorepo_commits = <<1, 2, 3>>
    /\ exported = <<>>
    /\ n_entries = 0
    /\ imported_mono_commits = <<>>
    /\ imported_submod_commits = <<>>
    /\ fast_import = <<>>
    /\ to_push_metadata = <<>>
    /\ uncollapsed = <<>>
    /\ last_split = None
    /\ warnings = 0
    /\ git_push_log = <<>>
    /\ failed_pushes = 0
    /\ printed = <<>>
    /\ msg_in = <<>>
    /\ msg_out = None
    /\ RefsIdle
    /\ GraphIdle
    /\ ResolveIdle
    /\ CreateIdle
    /\ InjectIdle

\* The mono parent of an exported commit: from the cache, else from the
\* commits imported in this run.
MonoParentOf(cache, imported, parent_id) ==
    IF parent_id \in DOMAIN cache THEN Some(cache[parent_id])
    ELSE IF parent_id \in DOMAIN imported THEN Some(imported[parent_id])
    ELSE None

\* The errors push() bails out with while splitting.
ErrUnknownParent == "Unknown mono commit parent"
ErrNoTopic == "Multiple submodules changed, but no topic was provided"

\* (mutant) The topic is asked for only from three groups on.
TopicMissing_above_two(groups, topic) == Cardinality(DOMAIN groups) > 2 /\ topic = None

\* The check made between grouping and the loop over the groups.
TopicMissing(groups, topic) == Cardinality(DOMAIN groups) > 1 /\ topic = None

\* (mutant) The loop over the export stream goes on after a commit that
\* failed to split.
AfterSplit_ignoring_error(err) == "export"

\* The `?` and bail! of the loop body: an error ends push(), otherwise the
\* next entry of the stream is read.
AfterSplit(err) == IF err = "none" THEN "export" ELSE "failed"

\* FastExportEntry::Commit: the whole loop body for one exported commit.
ExportCommit ==
    /\ pc = "export"
    /\ n_entries < MaxExport
    /\ \E parents \in ParentChoices, paths \in ChangedPaths, message \in PushMessages :
        \* a commit id is the hash of the commit: another id, another content
        /\ \A i \in 1..Len(exported) :
              <<exported[i].parents, exported[i].paths, exported[i].message>>
                # <<parents, paths, message>>
        /\ LET original_id == 100 + Len(exported) + 1
               file_changes == [i \in 1..Len(paths) |->
                                  [path |-> paths[i], change |-> Generation(parents)]]
               found == [i \in 1..Len(parents) |->
                           MonoParentOf(monorepo_commits, imported_mono_commits, parents[i])]
               unknown == \E i \in 1..Len(parents) : found[i] = None
               mono_parents == [i \in 1..Len(parents) |-> Unwrap(found[i])]
               grouped == GroupFileChanges(ExportedTree, file_changes, 1, TopPushUrl,
                                           [groups |-> <<>>, config |-> config])
               keys == SortedKeys(DOMAIN grouped.groups)
               rewritten == rewrite_push_message(message)
               st0 == [log |-> fast_import, submod_commits |-> imported_submod_commits,
                       nodes |-> mono_nodes, mono_commits |-> imported_mono_commits,
                       queue |-> to_push_metadata, err |-> "none"]
               split == IF unknown THEN [st0 EXCEPT !.err = ErrUnknownParent]
                        ELSE IF TopicMissing(grouped.groups, rewritten.topic)
                        THEN [st0 EXCEPT !.err = ErrNoTopic]
                        ELSE SplitGroups(st0, keys, 1, grouped.groups, mono_parents,
                                         original_id, rewritten.message, rewritten.topic)
           IN \E st \in {split} :
              /\ exported' = Append(exported, [id |-> original_id, parents |-> parents,
                                               paths |-> paths, message |-> message,
                                               generation |-> Generation(parents)])
              /\ n_entries' = n_entries + 1
              /\ config' = IF unknown THEN config ELSE grouped.config
              /\ fast_import' = st.log
              /\ imported_submod_commits' = st.submod_commits
              /\ mono_nodes' = st.nodes
              /\ imported_mono_commits' = st.mono_commits
              /\ to_push_metadata' = st.queue
              /\ last_split' = Some([id |-> original_id,
                                     parents |-> parents,
                                     parents_known |-> ~unknown,
                                     file_changes |-> file_changes,
                                     groups |-> grouped.groups,
                                     keys |-> keys,
                                     message |-> message,
                                     written_before |-> Len(fast_import),
                                     queued_before |-> Len(to_push_metadata),
                                     nodes_before |-> Len(mono_nodes),
                                     err |-> st.err])
              /\ pc' = AfterSplit(st.err)
              /\ result' = IF st.err = "none" THEN result ELSE st.err
    /\ UNCHANGED <<dry_run, monorepo_commits, uncollapsed, warnings, git_push_log,
                   failed_pushes, printed, msgVars, refVars,
                   graphVars, resolveVars, createVars, injectVars>>

\* FastExportEntry::Reset: a warning, nothing else.
ExportReset ==
    /\ pc = "export"
    /\ n_entries < MaxExport
    /\ n_entries' = n_entries + 1
    /\ warnings' = warnings + 1
    /\ UNCHANGED <<pc, result, dry_run, config, mono_nodes, monorepo_commits, exported,
                   imported_mono_commits, imported_submod_commits, fast_import,
                   to_push_metadata, uncollapsed, last_split, git_push_log, failed_pushes,
                   printed, msgVars, refVars,
                   graphVars, resolveVars, createVars, injectVars>>

\* The export stream ends and fast_importer.wait() returns: the child
\* process exited with success or not.
ExportEnd ==
    /\ pc = "export"
    /\ StreamComplete
    /\ \E child_ok \in BOOLEAN :
        /\ pc' = IF child_ok THEN "collapse" ELSE "failed"
        /\ result' = IF child_ok THEN result ELSE "fast-import failed"
    /\ UNCHANGED <<dry_run, config, mono_nodes, monorepo_commits, exported, n_entries,
                   imported_mono_commits, imported_submod_commits, fast_import,
                   to_push_metadata, uncollapsed, last_split, warnings, git_push_log,
                   failed_pushes, printed, msgVars, refVars,
                   graphVars, resolveVars, createVars, injectVars>>

\* The queue is collapsed.
Collapse ==
    /\ pc = "collapse"
    /\ \E needed \in {NeededPushes(to_push_metadata)} :
        /\ uncollapsed' = [i \in 1..Len(to_push_metadata) |->
                             [entry |-> to_push_metadata[i], kept |-> needed[i]]]
        /\ to_push_metadata' = Retained(to_push_metadata, needed)
    /\ pc' = "print"
    /\ UNCHANGED <<result, dry_run, config, mono_nodes, monorepo_commits, exported, n_entries,
                   imported_mono_commits, imported_submod_commits, fast_import, last_split,
                   warnings, git_push_log, failed_pushes, printed, msgVars, refVars,
                   graphVars, resolveVars, createVars, injectVars>>

\* The command of one queue entry.
PushCommand(e) == [push_url |-> e.push_url, topic |-> e.topic, commit_id |-> e.commit_id]

\* progress.suspend(..): the commands are printed, labelled by dry_run.
PrintCommands ==
    /\ pc = "print"
    /\ printed' = [i \in 1..Len(to_push_metadata) |->
                     [info_label |-> IF dry_run THEN "Would run" ELSE "Running",
                      command |-> PushCommand(to_push_metadata[i])]]
    /\ pc' = "push"
    /\ UNCHANGED <<result, dry_run, config, mono_nodes, monorepo_commits, exported, n_entries,
                   imported_mono_commits, imported_submod_commits, fast_import,
                   to_push_metadata, uncollapsed, last_split, warnings, git_push_log,
                   failed_pushes, msgVars, refVars,
                   graphVars, resolveVars, createVars, injectVars>>

\* failed_pushes after one git-push.
CountFailure(failed, success) == IF success THEN failed ELSE failed + 1

\* (mutant) The loop running git-push is entered in a dry run too.
RunsGitPush_always(dry) == TRUE

\* Whether the loop running git-push is entered.
RunsGitPush(dry) == ~dry

\* One iteration of the loop running git-push: the command succeeds or not.
GitPush ==
    /\ pc = "push"
    /\ RunsGitPush(dry_run)
    /\ Len(git_push_log) < Len(to_push_metadata)
    /\ \E success \in BOOLEAN :
        /\ git_push_log' = Append(git_push_log,
               [command |-> PushCommand(to_push_metadata[Len(git_push_log) + 1]),
                success |-> success])
        /\ failed_pushes' = CountFailure(failed_pushes, success)
    /\ UNCHANGED <<pc, result, dry_run, config, mono_nodes, monorepo_commits, exported,
                   n_entries, imported_mono_commits, imported_submod_commits, fast_import,
                   to_push_metadata, uncollapsed, last_split, warnings, printed, msgVars, refVars,
                   graphVars, resolveVars, createVars, injectVars>>

\* (mutant) Failed pushes are not reported.
PushResult_always_ok(failed) == "ok"

\* The value push() returns after the push loop (skipped in a dry run).
PushResult(failed) == IF failed # 0 THEN "git-push failed" ELSE "ok"

PushReturn ==
    /\ pc = "push"
    /\ ~RunsGitPush(dry_run) \/ Len(git_push_log) = Len(to_push_metadata)
    /\ result' = PushResult(failed_pushes)
    /\ pc' = "done"
    /\ UNCHANGED <<dry_run, config, mono_nodes, monorepo_commits, exported, n_entries,
                   imported_mono_commits, imported_submod_commits, fast_import,
                   to_push_metadata, uncollapsed, last_split, warnings, git_push_log,
                   failed_pushes, printed, msgVars, refVars,
                   graphVars, resolveVars, createVars, injectVars>>

Next ==
    \/ ExportCommit
    \/ ExportReset
    \/ ExportEnd
    \/ Collapse
    \/ PrintCommands
    \/ GitPush
    \/ PushReturn

Spec == Init /\ [][Next]_vars

(***************************************************************************)
(* The rewrite_push_message check: one call on a bounded message           *)
(***************************************************************************)
\* The pieces the checked messages are made of.
Chunks == { TopicPrefix, CrumbPrefix, <<"T", "o", "p", "i", "c", ":">>, <<"^", "-", "-">>,
            <<"x">>, <<" ">>, <<LF>>, <<CR>> }

Messages == { Flatten(cs) : cs \in UNION { [1..n -> Chunks] : n \in 0..MaxChunks } }

PushIdle ==
    /\ pc = "idle"
    /\ result = "none"
    /\ dry_run = FALSE
    /\ config = {}
    /\ mono_nodes = <<>>
    /\ monorepo_commits = <<>>
    /\ exported = <<>>
    /\ n_entries = 0
    /\ imported_mono_commits = <<>>
    /\ imported_submod_commits = <<>>
    /\ fast_import = <<>>
    /\ to_push_metadata = <<>>
    /\ uncollapsed = <<>>
    /\ last_split = None
    /\ warnings = 0
    /\ git_push_log = <<>>
    /\ failed_pushes = 0
    /\ printed = <<>>

MsgIdle ==
    /\ msg_in = <<>>
    /\ msg_out = None

InitMsg ==
    /\ PushIdle
    /\ msg_in \in Messages
    /\ msg_out = None
    /\ RefsIdle
    /\ GraphIdle
    /\ ResolveIdle
    /\ CreateIdle
    /\ InjectIdle

RewritePushMessage ==
    /\ msg_out = None
    /\ msg_out' = Some(rewrite_push_message(msg_in))
    /\ UNCHANGED <<msg_in, pushVars, refVars, graphVars, resolveVars, createVars, injectVars>>

NextMsg == RewritePushMessage

SpecMsg == InitMsg /\ [][NextMsg]_vars

(***************************************************************************)
(* Properties of rewrite_push_message                                      *)
(***************************************************************************)
IsTopicLine(line) == StartsWith(line, TopicPrefix)
IsCrumbLine(line) == StartsWith(line, CrumbPrefix)
IsForwardedLine(line) == ~IsTopicLine(line) /\ ~IsCrumbLine(line)

\* C10: rewrite_push_message returns the lines of the message in their
\* order, without the lines starting with "Topic: " and those starting with
\* "^-- ", every other line unchanged and ended by a line feed; the topic
\* is the text after "Topic: " (of the last such line), None without one.
C10_RewriteKeepsOtherLines ==
    IsSome(msg_out) =>
        LET r == Unwrap(msg_out)
            lines == Lines(msg_in)
            kept == SelectSeq(lines, IsForwardedLine)
            topics == SelectSeq(lines, IsTopicLine)
            out == SplitInclusive(r.message)
        IN /\ Len(out) = Len(kept)
           /\ \A i \in 1..Len(out) : out[i] = kept[i] \o <<LF>>
           /\ r.topic = IF topics = <<>> THEN None
                        ELSE Some(SubSeq(topics[Len(topics)], Len(TopicPrefix) + 1,
                                         Len(topics[Len(topics)])))

\* A message with a topic line, a crumb line and a forwarded line was rewritten.
C10_Witness ==
    /\ IsSome(msg_out)
    /\ \E i \in 1..Len(Lines(msg_in)) : IsTopicLine(Lines(msg_in)[i])
    /\ \E i \in 1..Len(Lines(msg_in)) : IsCrumbLine(Lines(msg_in)[i])
    /\ Unwrap(msg_out).message = <<"x", LF>>
    /\ IsSome(Unwrap(msg_out).topic)

(***************************************************************************)
(* Properties of the split                                                 *)
(***************************************************************************)
\* The commits written to fast-import for mono commit id, in order.
WrittenFor(id) == SelectSeq(fast_import, LAMBDA e : e.origin = id)

\* The push queue as the split left it.
QueueAsSplit ==
    IF pc \in {"export", "failed", "collapse"} THEN to_push_metadata
    ELSE [i \in 1..Len(uncollapsed) |-> uncollapsed[i].entry]

\* The queue entries appended since the last exported commit was taken up.
QueuedByLast == SubSeq(QueueAsSplit, Unwrap(last_split).queued_before + 1, Len(QueueAsSplit))

NoTopicLine(message) == \A i \in 1..Len(Lines(message)) : ~IsTopicLine(Lines(message)[i])

\* C1 as stated: a commit with more than one group and no topic line fails
\* with the missing-topic error, nothing of it written.
C1_NoTopicAlwaysThatError ==
    IsSome(last_split) =>
        LET L == Unwrap(last_split)
        IN (Cardinality(DOMAIN L.groups) > 1 /\ NoTopicLine(L.message)) =>
              /\ pc = "failed"
              /\ result = ErrNoTopic
              /\ WrittenFor(L.id) = <<>>

\* C1, amended: an exported commit whose mono parents are all known, whose
\* changes fall into more than one group and whose message has no topic
\* line makes push fail with the missing-topic error, before any commit of
\* it is written to fast-import or queued.
C1_NoTopicFailsBeforeWriting ==
    IsSome(last_split) =>
        LET L == Unwrap(last_split)
        IN (L.parents_known /\ Cardinality(DOMAIN L.groups) > 1 /\ NoTopicLine(L.message)) =>
              /\ pc = "failed"
              /\ result = ErrNoTopic
              /\ WrittenFor(L.id) = <<>>
              /\ Len(fast_import) = L.written_before
              /\ Len(QueueAsSplit) = L.queued_before

\* A second exported commit, with two groups and no topic, was refused.
C1_Witness ==
    /\ IsSome(last_split)
    /\ Unwrap(last_split).parents_known
    /\ Cardinality(DOMAIN Unwrap(last_split).groups) = 2
    /\ NoTopicLine(Unwrap(last_split).message)
    /\ result = ErrNoTopic
    /\ Len(fast_import) >= 1

\* The node of a known mono commit id.
KnownNode(id) == Unwrap(MonoParentOf(monorepo_commits, imported_mono_commits, id))

\* What mono parent `id` contributes to the parent list of the group `key`:
\* its top bump, or the original commit of its submodule at the mount path
\* when that submodule is of the group's repository.
BumpFor(id, key) ==
    IF key[2].kind = "Top" THEN get_top_bump(mono_nodes, KnownNode(id))
    ELSE LET sub == get_some_submodule(mono_nodes, KnownNode(id), key[1], key[2].name)
         IN IF IsSome(sub) THEN Some(sub[1].commit_id) ELSE None

\* The first mono parent of the list that contributes commit c to group key.
FirstGiver(parents, key, c) ==
    CHOOSE i \in 1..Len(parents) :
        /\ BumpFor(parents[i], key) = Some(c)
        /\ \A j \in 1..(i - 1) : BumpFor(parents[j], key) # Some(c)

\* The ids of the parents of a written commit.
ParentIds(e) == [i \in 1..Len(e.parents) |-> get_object_id(fast_import, e.parents[i])]

\* C2: the parents of the commit written for a group are what the mono
\* parents contribute, in the order of the mono parents, each once (its
\* first occurrence), mono parents that contribute nothing skipped.
C2_ParentsFromMonoParents ==
    IsSome(last_split) =>
        LET L == Unwrap(last_split)
            written == WrittenFor(L.id)
        IN \A g \in 1..Len(written) :
              LET ids == ParentIds(written[g])
                  key == L.keys[g]
              IN /\ { ids[i] : i \in 1..Len(ids) }
                      = { Unwrap(BumpFor(L.parents[i], key)) :
                            i \in { j \in 1..Len(L.parents) :
                                      IsSome(BumpFor(L.parents[j], key)) } }
                 /\ \A a, b \in 1..Len(ids) :
                      a < b => FirstGiver(L.parents, key, ids[a])
                                 < FirstGiver(L.parents, key, ids[b])
                 /\ QueuedByLast[g].parents = ids

\* A merge was split whose two mono parents contribute the same submodule
\* commit, which became the only parent.
C2_Witness ==
    /\ IsSome(last_split)
    /\ Len(Unwrap(last_split).parents) = 2
    /\ Unwrap(last_split).err = "none"
    /\ \E g \in 1..Len(WrittenFor(Unwrap(last_split).id)) :
          /\ Unwrap(last_split).keys[g][2].kind = "SubRepo"
          /\ Len(WrittenFor(Unwrap(last_split).id)[g].parents) = 1
          /\ \A i \in 1..2 : IsSome(BumpFor(Unwrap(last_split).parents[i],
                                            Unwrap(last_split).keys[g]))

\* C3: when the last exported commit N names as parent a commit M split
\* earlier in the run, M is found among the imported commits, and for every
\* repository both wrote a commit for, N's commit has M's commit as parent.
C3_ChildBuildsOnParentSplit ==
    IsSome(last_split) =>
        LET N == Unwrap(last_split)
        IN \A i \in 1..Len(N.parents) :
              (\E x \in 1..Len(exported) : exported[x].id = N.parents[i]) =>
                 /\ N.parents[i] \in DOMAIN imported_mono_commits
                 /\ \A n \in 1..Len(fast_import), m \in 1..Len(fast_import) :
                      (/\ fast_import[n].origin = N.id
                       /\ fast_import[m].origin = N.parents[i]
                       /\ fast_import[n].branch = fast_import[m].branch)
                      => \E j \in 1..Len(fast_import[n].parents) :
                            ParentIds(fast_import[n])[j] = fast_import[m].id

\* The topic line of the message, if it has one (the last).
TopicOf(message) ==
    LET topics == SelectSeq(Lines(message), IsTopicLine)
    IN IF topics = <<>> THEN None
       ELSE Some(SubSeq(topics[Len(topics)], Len(TopicPrefix) + 1, Len(topics[Len(topics)])))

\* C4: an exported commit with k groups that is split without error has k
\* commits written, the g-th on the push branch of the g-th group's
\* repository with file changes whose paths, put back under the mount path,
\* are paths of the mono commit, no change lost; and k queue entries
\* appended, each with the topic of the mono commit and its commit's id.
C4_OneCommitPerGroup ==
    IsSome(last_split) =>
        LET L == Unwrap(last_split)
            written == WrittenFor(L.id)
            k == Cardinality(DOMAIN L.groups)
        IN L.err = "none" =>
              /\ Len(fast_import) = L.written_before + k
              /\ Len(written) = k
              /\ Len(QueuedByLast) = k
              /\ \A g \in 1..k :
                    /\ written[g].branch = to_ref_prefix(L.keys[g][2]) \o <<"push">>
                    /\ written[g].file_changes # <<>>
                    /\ \A c \in 1..Len(written[g].file_changes) :
                          \E f \in 1..Len(L.file_changes) :
                             /\ L.file_changes[f].path
                                  = PathJoin(L.keys[g][1], written[g].file_changes[c].path)
                             /\ L.file_changes[f].change = written[g].file_changes[c].change
                    /\ QueuedByLast[g].topic = TopicOf(L.message)
                    /\ QueuedByLast[g].commit_id = written[g].id
                    /\ QueuedByLast[g].push_url = L.keys[g][3]
              /\ Len(Flatten([g \in 1..k |-> written[g].file_changes])) = Len(L.file_changes)

\* A commit with two groups was split into two commits.
C4_Witness ==
    /\ IsSome(last_split)
    /\ Unwrap(last_split).err = "none"
    /\ Cardinality(DOMAIN Unwrap(last_split).groups) = 2
    /\ Len(WrittenFor(Unwrap(last_split).id)) = 2

\* Group g of the last exported commit gets no parent from any mono parent.
NoParentFor(L, g) ==
    \A i \in 1..Len(L.parents) : BumpFor(L.parents[i], L.keys[g]) = None

\* C5: when the last exported commit passed the parent lookup and the topic
\* check and g is its first group with an empty parent list, push failed
\* with the structural error of that group's kind, having written and queued
\* the g - 1 groups before it only; and no written commit is without parents.
C5_EmptyParentsFail ==
    /\ \A n \in 1..Len(fast_import) : fast_import[n].parents # <<>>
    /\ IsSome(last_split) =>
        LET L == Unwrap(last_split)
        IN (L.parents_known /\ L.err # ErrNoTopic) =>
              \A g \in 1..Len(L.keys) :
                 (NoParentFor(L, g) /\ \A h \in 1..(g - 1) : ~NoParentFor(L, h)) =>
                    /\ pc = "failed"
                    /\ result = IF L.keys[g][2].kind = "Top" THEN ErrTopNoParents
                                ELSE ErrSubNoGitlink
                    /\ Len(fast_import) = L.written_before + g - 1
                    /\ Len(QueueAsSplit) = L.queued_before + g - 1

\* A sub-repo group had no parent after an earlier group of the same commit
\* was written.
C5_Witness ==
    /\ IsSome(last_split)
    /\ result = ErrSubNoGitlink
    /\ Len(Unwrap(last_split).keys) = 2
    /\ NoParentFor(Unwrap(last_split), 2)
    /\ Len(fast_import) = Unwrap(last_split).written_before + 1

(***************************************************************************)
(* Properties of the collapse and of the push loop                         *)
(***************************************************************************)
Collapsed == pc \in {"print", "push", "done"}

Entry(i) == uncollapsed[i].entry

InParents(e, c) == \E p \in 1..Len(e.parents) : e.parents[p] = c

\* Entry j, later in the queue, pushes to the URL of entry i a commit that
\* has the commit of entry i among its parents.
PushedOnto(j, i) ==
    /\ j > i
    /\ Entry(j).push_url = Entry(i).push_url
    /\ InParents(Entry(j), Entry(i).commit_id)

\* Entry j, later in the queue, pushes the commit of entry i to the same URL.
PushedAgain(j, i) ==
    /\ j > i
    /\ Entry(j).push_url = Entry(i).push_url
    /\ Entry(j).commit_id = Entry(i).commit_id

\* C6 as stated: an entry is kept iff no later entry with its URL and its
\* topic lists its commit among its parents.
C6_KeptIffNoLaterSameTopic ==
    Collapsed =>
        \A i \in 1..Len(uncollapsed) :
            uncollapsed[i].kept <=>
                ~\E j \in 1..Len(uncollapsed) :
                    PushedOnto(j, i) /\ Entry(j).topic = Entry(i).topic

\* C6, amended: an entry is dropped iff the first later entry with its URL
\* that pushes its commit again or lists its commit among its parents does
\* the latter and has its topic; the entries kept are the queue, in order.
C6_DroppedIffNextPushHasTopic ==
    Collapsed =>
        /\ \A i \in 1..Len(uncollapsed) :
              ~uncollapsed[i].kept <=>
                  \E j \in 1..Len(uncollapsed) :
                      /\ PushedOnto(j, i)
                      /\ Entry(j).topic = Entry(i).topic
                      /\ \A m \in (i + 1)..(j - 1) : ~PushedOnto(m, i) /\ ~PushedAgain(m, i)
        /\ (pc = "print" =>
              to_push_metadata
                = [n \in 1..Len(SelectSeq(uncollapsed, LAMBDA u : u.kept)) |->
                     SelectSeq(uncollapsed, LAMBDA u : u.kept)[n].entry])

\* Three commits in a row to one sub-repo under one topic: only the push of
\* the last is left.
C6_Witness ==
    /\ Collapsed
    /\ Len(uncollapsed) = 3
    /\ \A i \in 1..3 : Entry(i).topic = Some(<<"X">>) /\ Entry(i).push_url = <<"srv", "a">>
    /\ PushedOnto(2, 1) /\ PushedOnto(3, 2)
    /\ ~uncollapsed[1].kept /\ ~uncollapsed[2].kept /\ uncollapsed[3].kept

RECURSIVE ReachedFrom(_, _)
\* The commits reached from those of `seen` through the parent lists of the
\* queue entries, up to n steps.
ReachedFrom(seen, n) ==
    IF n = 0 THEN seen
    ELSE ReachedFrom(seen \cup UNION { { Entry(i).parents[p] : p \in 1..Len(Entry(i).parents) } :
                                         i \in { k \in 1..Len(uncollapsed) :
                                                   Entry(k).commit_id \in seen } },
                     n - 1)

\* C7: for every entry the collapse dropped there is an entry it kept with
\* the same URL and topic whose commit reaches the dropped commit through
\* the parent lists of the queue entries.
C7_DroppedPushIsIncluded ==
    Collapsed =>
        \A i \in 1..Len(uncollapsed) :
            ~uncollapsed[i].kept =>
                \E j \in 1..Len(uncollapsed) :
                    /\ uncollapsed[j].kept
                    /\ Entry(j).push_url = Entry(i).push_url
                    /\ Entry(j).topic = Entry(i).topic
                    /\ Entry(j).commit_id # Entry(i).commit_id
                    /\ Entry(i).commit_id
                         \in ReachedFrom({Entry(j).commit_id}, Len(uncollapsed))

\* An entry was dropped whose commit is two pushes below the one kept.
C7_Witness ==
    /\ Collapsed
    /\ \E i, j \in 1..Len(uncollapsed) :
          /\ ~uncollapsed[i].kept
          /\ uncollapsed[j].kept
          /\ ~InParents(Entry(j), Entry(i).commit_id)
          /\ Entry(j).push_url = Entry(i).push_url
          /\ Entry(i).commit_id \in ReachedFrom({Entry(j).commit_id}, Len(uncollapsed))

\* C8: outside a dry run the git-push commands run are those of the queue
\* entries, each once and in queue order, whatever failed before; and push
\* returns the git-push error iff one of them failed.
C8_EveryPushAttemptedOnce ==
    /\ Len(git_push_log) <= Len(to_push_metadata)
    /\ \A i \in 1..Len(git_push_log) :
          git_push_log[i].command = PushCommand(to_push_metadata[i])
    /\ (pc = "done" /\ ~dry_run) =>
          /\ Len(git_push_log) = Len(to_push_metadata)
          /\ (result = "git-push failed"
                <=> \E i \in 1..Len(git_push_log) : ~git_push_log[i].success)
          /\ (result = "ok" <=> \A i \in 1..Len(git_push_log) : git_push_log[i].success)

\* A run in which the first git-push failed, a later one was still made,
\* and push returned the error.
C8_Witness ==
    /\ pc = "done"
    /\ ~dry_run
    /\ Len(git_push_log) >= 2
    /\ ~git_push_log[1].success
    /\ git_push_log[2].success
    /\ result = "git-push failed"

\* C9: in a dry run no git-push is run; the commands are printed as "Would
\* run", one per queue entry, and push returns success once the split and
\* the wait for fast-import have succeeded.
C9_DryRunPushesNothing ==
    dry_run =>
        /\ git_push_log = <<>>
        /\ failed_pushes = 0
        /\ (pc \in {"push", "done"} =>
              /\ Len(printed) = Len(to_push_metadata)
              /\ \A i \in 1..Len(printed) :
                    /\ printed[i].info_label = "Would run"
                    /\ printed[i].command = PushCommand(to_push_metadata[i]))
        /\ (pc = "done" => result = "ok")
        /\ (pc \in {"collapse", "print", "push"} => result = "none")

\* A dry run with two pushes to print has returned.
C9_Witness ==
    /\ dry_run
    /\ pc = "done"
    /\ result = "ok"
    /\ Len(printed) = 2

(***************************************************************************)
(* Refs and objects of the repository                                      *)
(***************************************************************************)
\* Ref names: refs/namespaces/top/<leaf>, refs/remotes/origin/<leaf> and
\* refs/heads/<leaf>.
TopRef(leaf) == [ns |-> "top", leaf |-> leaf]
OriginRef(leaf) == [ns |-> "origin", leaf |-> leaf]
LocalRef(leaf) == [ns |-> "local", leaf |-> leaf]

\* The leaves in the order of the full names: HEAD, refs/heads/dev,
\* refs/heads/main.
LeafOrder == <<"HEAD", "dev", "main">>

Range(seq) == { seq[i] : i \in 1..Len(seq) }

\* gix::refs::Target
Object(id) == [kind |-> "Object", id |-> id]
Symbolic(name) == [kind |-> "Symbolic", name |-> name]

\* The commits of the top repository, a chain 1 <- 2 <- 3 with a branch
\* 4 off 1 and their merge 5 of 3 and 4; 8 is a tree and 9 a blob.
TopCommits == {1, 2, 3, 4, 5}
TopParents(c) == IF c = 1 THEN <<>>
                 ELSE IF c = 4 THEN <<1>>
                 ELSE IF c = 5 THEN <<3, 4>>
                 ELSE <<c - 1>>
Kind(id) == IF id = 8 THEN "Tree" ELSE IF id = 9 THEN "Blob" ELSE "Commit"

\* The mono commit a top commit is expanded to.
MonoOf(c) == 100 + c

\* The names of namespace ns in the store, in name order.
RefNames(store, ns) ==
    SelectSeq([i \in 1..Len(LeafOrder) |-> [ns |-> ns, leaf |-> LeafOrder[i]]],
              LAMBDA n : n \in DOMAIN store)

RECURSIVE FollowToObject(_, _, _)
\* Reference::follow_to_object: the object at the end of the symbolic
\* chain, None when the chain dangles.
FollowToObject(store, name, fuel) ==
    IF fuel = 0 THEN None
    ELSE IF name \notin DOMAIN store THEN None
    ELSE IF store[name].kind = "Object" THEN Some(store[name].id)
    ELSE FollowToObject(store, store[name].name, fuel - 1)

follow_to_object(store, name) == FollowToObject(store, name, 3)

\* TopRepoExpander::input_ref_to_output_ref: the name under
\* refs/remotes/origin/ of a name under refs/namespaces/top/, an error for
\* any other name.
input_ref_to_output_ref(name) ==
    IF name.ns = "top" THEN Some(OriginRef(name.leaf)) ELSE None

\* The warnings of the runs.
WarnTree(name) == [warning |-> "Skipping ref that points to a tree", name |-> name]
WarnBlob(name) == [warning |-> "Skipping ref that points to a blob", name |-> name]
WarnOutside(name) ==
    [warning |-> "Skipping symbolic ref that points outside the top repo", name |-> name]
WarnDelete(name) == [warning |-> "Deleting now removed ref", name |-> name]

\* The errors of the runs.
ErrResolve == "Failed to resolve symbolic ref"
ErrFindReference == "reference not found"
ErrExpand == "expand_toprepo_commits failed"
ErrWait == "fast-import failed"
ErrRefTransaction == "Failed to update all the refs/remotes/origin/* references"
PanicSymbolic == "symbolic refs in expand_toprepo_refs are not supported yet"

(***************************************************************************)
(* refilter and expand_toprepo_refs: the tips                              *)
(***************************************************************************)
\* refilter(): the refs under refs/remotes/origin/ at the start of the run.
OldOriginRefs(store) == [n \in { m \in DOMAIN store : m.ns = "origin" } |-> store[n]]

\* What the loops over the refs collect.
NoTips == [new_origin_ref_names |-> {}, toprepo_symbolic_tips |-> <<>>,
           toprepo_object_tip_names |-> <<>>, toprepo_object_tip_ids |-> <<>>,
           warnings |-> <<>>, err |-> "none"]

RECURSIVE RefilterTips_keeping_trees(_, _, _, _)
\* (mutant) The loop over the top refs skips blobs only.
RefilterTips_keeping_trees(store, names, i, acc) ==
    IF i > Len(names) THEN acc
    ELSE LET name == names[i]
             r_target == follow_to_object(store, name)
         IN IF r_target = None THEN [acc EXCEPT !.err = ErrResolve]
            ELSE IF Kind(Unwrap(r_target)) = "Blob"
               THEN RefilterTips_keeping_trees(store, names, i + 1,
                        [acc EXCEPT !.warnings = Append(@, WarnBlob(name))])
            ELSE LET named == [acc EXCEPT !.new_origin_ref_names =
                                  @ \cup {Unwrap(input_ref_to_output_ref(name))}]
                 IN IF store[name].kind = "Symbolic"
                    THEN RefilterTips_keeping_trees(store, names, i + 1,
                             [named EXCEPT !.toprepo_symbolic_tips =
                                 Append(@, <<name, store[name].name>>)])
                    ELSE RefilterTips_keeping_trees(store, names, i + 1,
                             [named EXCEPT !.toprepo_object_tip_names = Append(@, name),
                                           !.toprepo_object_tip_ids =
                                               Append(@, store[name].id)])

RECURSIVE RefilterTips(_, _, _, _)
\* refilter(): the loop over the refs under refs/namespaces/top/, from the
\* i-th name on.
RefilterTips(store, names, i, acc) ==
    IF i > Len(names) THEN acc
    ELSE LET name == names[i]
             r_target == follow_to_object(store, name)
         IN IF r_target = None THEN [acc EXCEPT !.err = ErrResolve]
            ELSE IF Kind(Unwrap(r_target)) = "Tree"
               THEN RefilterTips(store, names, i + 1,
                        [acc EXCEPT !.warnings = Append(@, WarnTree(name))])
            ELSE IF Kind(Unwrap(r_target)) = "Blob"
               THEN RefilterTips(store, names, i + 1,
                        [acc EXCEPT !.warnings = Append(@, WarnBlob(name))])
            ELSE LET named == [acc EXCEPT !.new_origin_ref_names =
                                  @ \cup {Unwrap(input_ref_to_output_ref(name))}]
                 IN IF store[name].kind = "Symbolic"
                    THEN RefilterTips(store, names, i + 1,
                             [named EXCEPT !.toprepo_symbolic_tips =
                                 Append(@, <<name, store[name].name>>)])
                    ELSE RefilterTips(store, names, i + 1,
                             [named EXCEPT !.toprepo_object_tip_names = Append(@, name),
                                           !.toprepo_object_tip_ids =
                                               Append(@, store[name].id)])

RECURSIVE ExpandRefsTips(_, _, _, _)
\* expand_toprepo_refs(): the loop over the refs argument.
ExpandRefsTips(store, names, i, acc) ==
    IF i > Len(names) THEN acc
    ELSE LET name == names[i]
             r_target == follow_to_object(store, name)
         IN IF name \notin DOMAIN store THEN [acc EXCEPT !.err = ErrFindReference]
            ELSE IF r_target = None THEN [acc EXCEPT !.err = ErrResolve]
            ELSE IF Kind(Unwrap(r_target)) = "Tree"
               THEN ExpandRefsTips(store, names, i + 1,
                        [acc EXCEPT !.warnings = Append(@, WarnTree(name))])
            ELSE IF Kind(Unwrap(r_target)) = "Blob"
               THEN ExpandRefsTips(store, names, i + 1,
                        [acc EXCEPT !.warnings = Append(@, WarnBlob(name))])
            ELSE IF store[name].kind = "Symbolic" THEN [acc EXCEPT !.err = PanicSymbolic]
            ELSE ExpandRefsTips(store, names, i + 1,
                     [acc EXCEPT !.toprepo_object_tip_names = Append(@, name),
                                 !.toprepo_object_tip_ids = Append(@, store[name].id)])

\* (mutant) Every tip is taken for unknown.
UnknownTips_all(map, tip_ids) == tip_ids

\* refilter(): the tips that are not in top_to_mono_map.
UnknownTips(map, tip_ids) == SelectSeq(tip_ids, LAMBDA c : c \notin DOMAIN map)

\* (mutant) The walk also stops at every commit that is not a merge.
IsKnownRefilter_or_no_merge(map, c) == c \in DOMAIN map \/ Len(TopParents(c)) < 2

\* refilter(): the closure telling get_first_known_commits where to stop.
IsKnownRefilter(map, c) == c \in DOMAIN map

\* expand_toprepo_refs(): the same, never stopping at a tip.
IsKnownExpandRefs(map, tips, c) == c \notin tips /\ c \in DOMAIN map

RECURSIVE WalkCommits(_, _, _)
\* git::get_first_known_commits: from the commits of todo towards the
\* roots, stopping at the commits of known; the stop commits, and the
\* commits passed (the number of them is num_commits_to_export).
WalkCommits(todo, known, acc) ==
    IF todo = {} THEN acc
    ELSE LET stops == todo \cap known
             passed == todo \ known
             seen == acc.stop \cup acc.passed \cup todo
             next == UNION { { TopParents(c)[j] : j \in 1..Len(TopParents(c)) } :
                             c \in passed } \ seen
         IN WalkCommits(next, known, [stop |-> acc.stop \cup stops,
                                      passed |-> acc.passed \cup passed])

get_first_known_commits(tips, known) ==
    WalkCommits(tips, known, [stop |-> {}, passed |-> {}])

RECURSIVE TopAncestors(_)
\* The commits reachable from those of S, S included.
TopAncestors(S) ==
    LET up == S \cup UNION { { TopParents(c)[j] : j \in 1..Len(TopParents(c)) } : c \in S }
    IN IF up = S THEN S ELSE TopAncestors(up)

RECURSIVE ParentsFirst(_)
\* The commits of S in an order with parents before children (a parent has
\* a smaller number than its children).
ParentsFirst(S) ==
    IF S = {} THEN <<>>
    ELSE LET first == CHOOSE c \in S : \A o \in S : c <= o
         IN <<first>> \o ParentsFirst(S \ {first})

\* TopRepoExpander::expand_toprepo_commits: the commits fast-export hands
\* over for the tips and ^stop commits, parents before children.
CommitsToExpand(tips, stops) == ParentsFirst(TopAncestors(tips) \ TopAncestors(stops))

(***************************************************************************)
(* update_refs                                                             *)
(***************************************************************************)
\* gix::refs::transaction::PreviousValue
MustNotExist == [expect |-> "MustNotExist"]
MustExistAndMatch(target) == [expect |-> "MustExistAndMatch", target |-> target]

\* (mutant) Every edit expects the ref not to exist.
Expected_never_exists(old_target) == MustNotExist

\* The expectation of an update: old_target.cloned().map_or(MustNotExist, MustExistAndMatch)
Expected(old_target) ==
    IF old_target = None THEN MustNotExist ELSE MustExistAndMatch(Unwrap(old_target))

\* gix::refs::transaction::RefEdit with Change::Update and Change::Delete
UpdateEdit(name, expected, new) ==
    [change |-> "Update", name |-> name, expected |-> expected, new |-> new]
DeleteEdit(name, expected) ==
    [change |-> "Delete", name |-> name, expected |-> expected]

\* HashMap::get on old_origin_refs, mapped to the target.
OldTarget(old, name) == IF name \in DOMAIN old THEN Some(old[name]) ELSE None

RECURSIVE SymbolicEdits_until_outside(_, _, _, _)
\* (mutant) The loop over the symbolic tips ends at the first target
\* outside the top namespace.
SymbolicEdits_until_outside(tips, i, old, acc) ==
    IF i > Len(tips) THEN acc
    ELSE LET origin_link_name == Unwrap(input_ref_to_output_ref(tips[i][1]))
             origin_target_name == input_ref_to_output_ref(tips[i][2])
         IN IF origin_target_name = None
            THEN [acc EXCEPT !.warnings = Append(@, WarnOutside(tips[i][1]))]
            ELSE LET new_target == Symbolic(Unwrap(origin_target_name))
                     old_target == OldTarget(old, origin_link_name)
                 IN IF old_target # Some(new_target)
                    THEN SymbolicEdits_until_outside(tips, i + 1, old,
                             [acc EXCEPT !.ref_edits =
                                 Append(@, UpdateEdit(origin_link_name, Expected(old_target),
                                                      new_target))])
                    ELSE SymbolicEdits_until_outside(tips, i + 1, old, acc)

RECURSIVE SymbolicEdits(_, _, _, _)
\* The loop over toprepo_symbolic_tips, from the i-th on.
SymbolicEdits(tips, i, old, acc) ==
    IF i > Len(tips) THEN acc
    ELSE LET top_link_name == tips[i][1]
             top_target_name == tips[i][2]
             origin_link_name == Unwrap(input_ref_to_output_ref(top_link_name))
             origin_target_name == input_ref_to_output_ref(top_target_name)
         IN IF origin_target_name = None
            THEN SymbolicEdits(tips, i + 1, old,
                     [acc EXCEPT !.warnings = Append(@, WarnOutside(top_link_name))])
            ELSE LET new_target == Symbolic(Unwrap(origin_target_name))
                     old_target == OldTarget(old, origin_link_name)
                 IN IF old_target # Some(new_target)
                    THEN SymbolicEdits(tips, i + 1, old,
                             [acc EXCEPT !.ref_edits =
                                 Append(@, UpdateEdit(origin_link_name, Expected(old_target),
                                                      new_target))])
                    ELSE SymbolicEdits(tips, i + 1, old, acc)

\* An old origin ref whose name is not the translation of a tip.
IsStale(new_names, name) == name \notin new_names

RECURSIVE DeleteEdits(_, _, _, _, _)
\* The loop over old_origin_refs (a HashMap: the order of the deletes is
\* that of the names here).
DeleteEdits(old_names, i, old, new_names, acc) ==
    IF i > Len(old_names) THEN acc
    ELSE IF ~IsStale(new_names, old_names[i])
       THEN DeleteEdits(old_names, i + 1, old, new_names, acc)
    ELSE DeleteEdits(old_names, i + 1, old, new_names,
             [acc EXCEPT !.warnings = Append(@, WarnDelete(old_names[i])),
                         !.ref_edits =
                             Append(@, DeleteEdit(old_names[i],
                                                  MustExistAndMatch(old[old_names[i]])))])

\* The edits and warnings of update_refs.
RefEdits(symbolic_tips, old, new_names) ==
    DeleteEdits(RefNames(old, "origin"), 1, old, new_names,
                SymbolicEdits(symbolic_tips, 1, old, [ref_edits |-> <<>>, warnings |-> <<>>]))

\* Whether the ref is as the edit expects it.
ExpectationHolds(store, edit) ==
    IF edit.expected.expect = "MustNotExist" THEN edit.name \notin DOMAIN store
    ELSE IF edit.name \in DOMAIN store THEN store[edit.name] = edit.expected.target
    ELSE FALSE

ApplyEdit(store, edit) ==
    IF edit.change = "Delete" THEN MapRemove(store, edit.name)
    ELSE MapPut(store, edit.name, edit.new)

RECURSIVE ApplyEdits(_, _, _)
ApplyEdits(store, edits, i) ==
    IF i > Len(edits) THEN store ELSE ApplyEdits(ApplyEdit(store, edits[i]), edits, i + 1)

\* Repository::edit_references: one transaction, applied when every
\* expectation holds and not at all otherwise.
edit_references(store, edits) ==
    IF \A i \in 1..Len(edits) : ExpectationHolds(store, edits[i])
    THEN Some(ApplyEdits(store, edits, 1))
    ELSE None

\* (mutant) The transaction is submitted whatever the edits are.
SubmitsTransaction_always(edits) == TRUE

\* if !ref_edits.is_empty()
SubmitsTransaction(edits) == edits # <<>>

\* update_refs: the edits, the warnings, whether the transaction was
\* submitted and the store after it (None when the transaction failed).
update_refs(store, symbolic_tips, old, new_names) ==
    LET built == RefEdits(symbolic_tips, old, new_names)
    IN [ref_edits |-> built.ref_edits,
        warnings |-> built.warnings,
        submitted |-> SubmitsTransaction(built.ref_edits),
        store |-> IF SubmitsTransaction(built.ref_edits)
                  THEN edit_references(store, built.ref_edits)
                  ELSE Some(store)]

(***************************************************************************)
(* The expansion runs: refilter, expand_toprepo_refs, update_refs          *)
(***************************************************************************)
\* A repository with a local branch refs/heads/main, nothing fetched and
\* nothing expanded.
InitRefs ==
    /\ PushIdle
    /\ MsgIdle
    /\ GraphIdle
    /\ ResolveIdle
    /\ CreateIdle
    /\ InjectIdle
    /\ refs = (LocalRef("main") :> Object(100))
    /\ top_to_mono_map = <<>>
    /\ rpc = "idle"
    /\ operation = None
    /\ old_origin_refs = <<>>
    /\ new_origin_ref_names = {}
    /\ toprepo_symbolic_tips = <<>>
    /\ toprepo_object_tip_names = <<>>
    /\ toprepo_object_tip_ids = <<>>
    /\ stop_commits = None
    /\ ref_edits = <<>>
    /\ ref_warnings = <<>>
    /\ ref_result = "none"
    /\ run_history = <<>>

\* What a fetch can leave in refs/namespaces/top/<leaf>.
FetchTargets(leaf) ==
    IF leaf = "main" THEN { Object(c) : c \in TopCommits \cup {8} }
    ELSE IF leaf = "dev" THEN { Object(4), Symbolic(TopRef("main")) }
    ELSE { Symbolic(TopRef("main")), Symbolic(LocalRef("main")), Object(2), Object(9) }

\* fetch_toprepo: git fetch sets or prunes a ref of the top namespace.
Fetch ==
    /\ rpc = "idle"
    /\ \E leaf \in Range(LeafOrder) :
          \/ /\ TopRef(leaf) \in DOMAIN refs
             /\ refs' = MapRemove(refs, TopRef(leaf))
          \/ \E target \in FetchTargets(leaf) :
                /\ OldTarget(refs, TopRef(leaf)) # Some(target)
                /\ refs' = MapPut(refs, TopRef(leaf), target)
    /\ UNCHANGED <<top_to_mono_map, rpc, operation, old_origin_refs, new_origin_ref_names,
                   toprepo_symbolic_tips, toprepo_object_tip_names, toprepo_object_tip_ids,
                   stop_commits, ref_edits, ref_warnings, ref_result, run_history,
                   pushVars, msgVars, graphVars, resolveVars, createVars, injectVars>>

\* refilter() up to the call of expand_toprepo_commits: the refs are read,
\* and without an unknown tip the run is over.
RefilterStart ==
    /\ rpc = "idle"
    /\ \E tips \in {RefilterTips(refs, RefNames(refs, "top"), 1, NoTips)} :
        LET unknown_toprepo_tips == UnknownTips(top_to_mono_map, tips.toprepo_object_tip_ids)
            known == { c \in TopCommits : IsKnownRefilter(top_to_mono_map, c) }
        IN /\ operation' = Some([name |-> "refilter", refs |-> <<>>])
           /\ old_origin_refs' = OldOriginRefs(refs)
           /\ new_origin_ref_names' = tips.new_origin_ref_names
           /\ toprepo_symbolic_tips' = tips.toprepo_symbolic_tips
           /\ toprepo_object_tip_names' = tips.toprepo_object_tip_names
           /\ toprepo_object_tip_ids' = tips.toprepo_object_tip_ids
           /\ ref_warnings' = tips.warnings
           /\ run_history' = <<"scan">>
           /\ IF tips.err # "none"
              THEN /\ rpc' = "failed"
                   /\ ref_result' = tips.err
                   /\ stop_commits' = None
              ELSE IF unknown_toprepo_tips = <<>>
              THEN /\ rpc' = "done"
                   /\ ref_result' = "ok"
                   /\ stop_commits' = None
              ELSE /\ rpc' = "expand"
                   /\ ref_result' = "none"
                   /\ stop_commits' =
                        Some(get_first_known_commits(Range(unknown_toprepo_tips), known))
    /\ UNCHANGED <<refs, top_to_mono_map, ref_edits, pushVars, msgVars, graphVars, resolveVars, createVars, injectVars>>

\* The refs arguments of expand_toprepo_refs.
RefsArguments == { <<TopRef("main")>>, <<TopRef("HEAD")>>, <<TopRef("HEAD"), TopRef("main")>> }

\* expand_toprepo_refs() up to the call of expand_toprepo_commits.
ExpandRefsStart ==
    /\ rpc = "idle"
    /\ \E names \in RefsArguments :
       \E tips \in {ExpandRefsTips(refs, names, 1, NoTips)} :
        LET toprepo_object_tip_ids_set == Range(tips.toprepo_object_tip_ids)
            known == { c \in TopCommits :
                         IsKnownExpandRefs(top_to_mono_map, toprepo_object_tip_ids_set, c) }
        IN /\ operation' = Some([name |-> "expand_toprepo_refs", refs |-> names])
           /\ toprepo_object_tip_names' = tips.toprepo_object_tip_names
           /\ toprepo_object_tip_ids' = tips.toprepo_object_tip_ids
           /\ ref_warnings' = tips.warnings
           /\ run_history' = <<"scan">>
           /\ IF tips.err # "none"
              THEN /\ rpc' = "failed"
                   /\ ref_result' = tips.err
                   /\ stop_commits' = None
              ELSE /\ rpc' = "expand"
                   /\ ref_result' = "none"
                   /\ stop_commits' =
                        Some(get_first_known_commits(toprepo_object_tip_ids_set, known))
    /\ UNCHANGED <<refs, top_to_mono_map, old_origin_refs, new_origin_ref_names,
                   toprepo_symbolic_tips, ref_edits, pushVars, msgVars, graphVars, resolveVars, createVars, injectVars>>

RECURSIVE RecordExpanded(_, _, _)
\* top_to_mono_map after the first k commits of the order are expanded.
RecordExpanded(map, order, k) ==
    IF k = 0 THEN map
    ELSE MapPut(RecordExpanded(map, order, k - 1), order[k], MonoOf(order[k]))

\* (mutant) The run goes on after a failed expansion.
AfterExpand_ignoring_error(ok) == "wait"

\* expand_toprepo_commits(..)?: an error ends the run, otherwise wait() is
\* next.
AfterExpand(ok) == IF ok THEN "wait" ELSE "failed"

\* expander.expand_toprepo_commits(..): every commit handed over is
\* expanded and recorded, or the call fails after some of them.
ExpandCommits ==
    /\ rpc = "expand"
    /\ \E order \in {CommitsToExpand(Range(toprepo_object_tip_ids),
                                     Unwrap(stop_commits).stop)} :
       \E ok \in BOOLEAN, k \in 0..Len(order) :
          /\ ok => k = Len(order)
          /\ top_to_mono_map' = RecordExpanded(top_to_mono_map, order, k)
          /\ rpc' = AfterExpand(ok)
          /\ ref_result' = IF ok THEN "none" ELSE ErrExpand
          /\ run_history' = Append(run_history, IF ok THEN "expanded" ELSE "expand failed")
    /\ UNCHANGED <<refs, operation, old_origin_refs, new_origin_ref_names,
                   toprepo_symbolic_tips, toprepo_object_tip_names, toprepo_object_tip_ids,
                   stop_commits, ref_edits, ref_warnings, pushVars, msgVars, graphVars, resolveVars, createVars, injectVars>>

RECURSIVE TipRefsWritten(_, _, _, _, _)
\* The refs fast-import leaves when it exits: the origin ref of every tip
\* is at the mono commit of the tip.
TipRefsWritten(store, map, names, ids, i) ==
    IF i > Len(names) THEN store
    ELSE TipRefsWritten(
             IF ids[i] \in DOMAIN map
             THEN MapPut(store, Unwrap(input_ref_to_output_ref(names[i])), Object(map[ids[i]]))
             ELSE store,
             map, names, ids, i + 1)

\* expander.wait(): the fast-import child exits with success or not.
Wait ==
    /\ rpc = "wait"
    /\ \E child_ok \in BOOLEAN :
        /\ refs' = IF child_ok
                   THEN TipRefsWritten(refs, top_to_mono_map, toprepo_object_tip_names,
                                       toprepo_object_tip_ids, 1)
                   ELSE refs
        /\ rpc' = IF ~child_ok THEN "failed"
                  ELSE IF Unwrap(operation).name = "refilter" THEN "update" ELSE "done"
        /\ ref_result' = IF ~child_ok THEN ErrWait
                         ELSE IF Unwrap(operation).name = "refilter" THEN "none" ELSE "ok"
        /\ run_history' = Append(run_history, IF child_ok THEN "waited" ELSE "wait failed")
    /\ UNCHANGED <<top_to_mono_map, operation, old_origin_refs, new_origin_ref_names,
                   toprepo_symbolic_tips, toprepo_object_tip_names, toprepo_object_tip_ids,
                   stop_commits, ref_edits, ref_warnings, pushVars, msgVars, graphVars, resolveVars, createVars, injectVars>>

\* Self::update_refs(..), the last statement of refilter().
UpdateRefs ==
    /\ rpc = "update"
    /\ \E done \in {update_refs(refs, toprepo_symbolic_tips, old_origin_refs,
                                new_origin_ref_names)} :
        /\ ref_edits' = done.ref_edits
        /\ ref_warnings' = ref_warnings \o done.warnings
        /\ refs' = IF IsSome(done.store) THEN Unwrap(done.store) ELSE refs
        /\ rpc' = IF IsSome(done.store) THEN "done" ELSE "failed"
        /\ ref_result' = IF IsSome(done.store) THEN "ok" ELSE ErrRefTransaction
        /\ run_history' = run_history \o (IF done.submitted THEN <<"edit_references">> ELSE <<>>)
                                      \o <<"update_refs">>
    /\ UNCHANGED <<top_to_mono_map, operation, old_origin_refs, new_origin_ref_names,
                   toprepo_symbolic_tips, toprepo_object_tip_names, toprepo_object_tip_ids,
                   stop_commits, pushVars, msgVars, graphVars, resolveVars, createVars, injectVars>>

\* Another git process sets or deletes a ref under refs/remotes/origin/
\* while the run is between reading the refs and its ref transaction.
ConcurrentRefEdit ==
    /\ rpc \in {"expand", "wait", "update"}
    /\ "concurrent edit" \notin Range(run_history)
    /\ \E leaf \in {"HEAD", "dev"} :
          \/ /\ OriginRef(leaf) \in DOMAIN refs
             /\ refs' = MapRemove(refs, OriginRef(leaf))
          \/ /\ OldTarget(refs, OriginRef(leaf)) # Some(Object(100))
             /\ refs' = MapPut(refs, OriginRef(leaf), Object(100))
    /\ run_history' = Append(run_history, "concurrent edit")
    /\ UNCHANGED <<top_to_mono_map, rpc, operation, old_origin_refs, new_origin_ref_names,
                   toprepo_symbolic_tips, toprepo_object_tip_names, toprepo_object_tip_ids,
                   stop_commits, ref_edits, ref_warnings, ref_result,
                   pushVars, msgVars, graphVars, resolveVars, createVars, injectVars>>

\* The run has returned: its locals are gone, the refs and the cache stay.
RunReturned ==
    /\ rpc \in {"done", "failed"}
    /\ rpc' = "idle"
    /\ operation' = None
    /\ old_origin_refs' = <<>>
    /\ new_origin_ref_names' = {}
    /\ toprepo_symbolic_tips' = <<>>
    /\ toprepo_object_tip_names' = <<>>
    /\ toprepo_object_tip_ids' = <<>>
    /\ stop_commits' = None
    /\ ref_edits' = <<>>
    /\ ref_warnings' = <<>>
    /\ ref_result' = "none"
    /\ run_history' = <<>>
    /\ UNCHANGED <<refs, top_to_mono_map, pushVars, msgVars, graphVars, resolveVars, createVars, injectVars>>

NextRefs ==
    \/ Fetch
    \/ RefilterStart
    \/ ExpandRefsStart
    \/ ExpandCommits
    \/ Wait
    \/ UpdateRefs
    \/ ConcurrentRefEdit
    \/ RunReturned

SpecRefs == InitRefs /\ [][NextRefs]_vars

(***************************************************************************)
(* Properties of the expansion runs                                        *)
(***************************************************************************)
\* The object tips of the run that are commits of the top repository.
TipCommits == Range(toprepo_object_tip_ids) \cap TopCommits

\* C11: top_to_mono_map is closed under ancestry: with a top commit, every
\* parent of it is a key of the map (in every state, so after any sequence
\* of runs); the walk stops only at commits whose whole ancestry is in the
\* map; and after a run that expanded with success every commit reachable
\* from its tips is in the map.
C11_TopToMonoMapClosed ==
    /\ \A c \in DOMAIN top_to_mono_map :
          \A j \in 1..Len(TopParents(c)) : TopParents(c)[j] \in DOMAIN top_to_mono_map
    /\ (rpc = "expand" =>
          TopAncestors(Unwrap(stop_commits).stop) \subseteq DOMAIN top_to_mono_map)
    /\ (rpc = "done" /\ "waited" \in Range(run_history) =>
          TopAncestors(TipCommits) \subseteq DOMAIN top_to_mono_map)

\* A refilter run that stopped at known commits has expanded the merge 5.
C11_Witness ==
    /\ rpc = "done"
    /\ operation = Some([name |-> "refilter", refs |-> <<>>])
    /\ IsSome(stop_commits)
    /\ Unwrap(stop_commits).stop # {}
    /\ DOMAIN top_to_mono_map = TopCommits

\* The origin names of the tips: the translated names of the refs of the
\* top namespace that resolve to a commit.
TipOriginNames ==
    { OriginRef(n.leaf) :
        n \in { m \in DOMAIN refs :
                  /\ m.ns = "top"
                  /\ IsSome(follow_to_object(refs, m))
                  /\ Kind(Unwrap(follow_to_object(refs, m))) = "Commit" } }

RefilterReturnedOk ==
    /\ rpc = "done"
    /\ operation = Some([name |-> "refilter", refs |-> <<>>])
    /\ ref_result = "ok"

\* C12: when refilter has returned with success, every ref under
\* refs/remotes/origin/ that existed before the run and whose name is not
\* the origin name of a tip is gone.
C12_NoStaleOriginRef ==
    RefilterReturnedOk =>
        \A name \in DOMAIN old_origin_refs :
            name \notin TipOriginNames => name \notin DOMAIN refs

\* The same for the runs that came to update_refs.
C12_NoStaleOriginRefAfterUpdateRefs ==
    (RefilterReturnedOk /\ "update_refs" \in Range(run_history)) =>
        \A name \in DOMAIN old_origin_refs :
            name \notin TipOriginNames => name \notin DOMAIN refs

\* The expectation update_refs has to put on an edit of the ref `name`,
\* given the refs read at the start of the run.
ExpectedFromStart(name) ==
    IF name \in DOMAIN old_origin_refs
    THEN [expect |-> "MustExistAndMatch", target |-> old_origin_refs[name]]
    ELSE [expect |-> "MustNotExist"]

\* The ref is as the edit expects it.
AsExpected(store, edit) ==
    \/ edit.expected.expect = "MustNotExist" /\ edit.name \notin DOMAIN store
    \/ /\ edit.expected.expect = "MustExistAndMatch"
       /\ edit.name \in DOMAIN store
       /\ store[edit.name] = edit.expected.target

\* C13: a step of update_refs hands all its edits to one transaction; every
\* delete is of a ref read at the start of the run and expects its target
\* of then, every update expects that target when the ref was read and
\* MustNotExist when it was not, no ref is edited twice; when an expectation
\* fails update_refs returns the error and the refs are as before, and
\* otherwise every edit is applied and nothing else changes.
C13_OneCheckedTransaction ==
    [][ rpc = "update" /\ rpc' # "update" =>
          LET edits == ref_edits'
              names == { edits[i].name : i \in 1..Len(edits) }
          IN /\ \A i \in 1..Len(edits) :
                   /\ edits[i].expected = ExpectedFromStart(edits[i].name)
                   /\ edits[i].change = "Delete" => edits[i].name \in DOMAIN old_origin_refs
                   /\ \A j \in 1..Len(edits) : edits[j].name = edits[i].name => j = i
             /\ IF \A i \in 1..Len(edits) : AsExpected(refs, edits[i])
                THEN /\ rpc' = "done"
                     /\ ref_result' = "ok"
                     /\ \A i \in 1..Len(edits) :
                           IF edits[i].change = "Delete"
                           THEN edits[i].name \notin DOMAIN refs'
                           ELSE /\ edits[i].name \in DOMAIN refs'
                                /\ refs'[edits[i].name] = edits[i].new
                     /\ DOMAIN refs' \ names = DOMAIN refs \ names
                     /\ \A n \in DOMAIN refs \ names : refs'[n] = refs[n]
                ELSE /\ rpc' = "failed"
                     /\ ref_result' = ErrRefTransaction
                     /\ refs' = refs
    ]_vars

\* A transaction with an update and a delete has failed on one of them.
C13_Witness ==
    /\ rpc = "failed"
    /\ ref_result = ErrRefTransaction
    /\ \E i, j \in 1..Len(ref_edits) :
          /\ ref_edits[i].change = "Update"
          /\ ref_edits[j].change = "Delete"
          /\ AsExpected(refs, ref_edits[j])
          /\ ~AsExpected(refs, ref_edits[i])

\* C14: after update_refs, for every symbolic tip with its target in the
\* top namespace the origin ref of the translated name is symbolic to the
\* translated target: it was so at the start of the run or there is an
\* update to it among the edits, and it is so in the store when the run
\* ended well with nobody else editing the refs; for a target outside the
\* top namespace there is the warning and no edit of that origin ref, and
\* the run does not fail for it.
C14_SymbolicTipsTranslated ==
    "update_refs" \in Range(run_history) =>
        \A i \in 1..Len(toprepo_symbolic_tips) :
            LET link == toprepo_symbolic_tips[i][1]
                target == toprepo_symbolic_tips[i][2]
                origin_link == [ns |-> "origin", leaf |-> link.leaf]
                want == [kind |-> "Symbolic",
                         name |-> [ns |-> "origin", leaf |-> target.leaf]]
                alone == "concurrent edit" \notin Range(run_history)
            IN IF target.ns = "top"
               THEN /\ \/ /\ origin_link \in DOMAIN old_origin_refs
                          /\ old_origin_refs[origin_link] = want
                       \/ \E k \in 1..Len(ref_edits) :
                             /\ ref_edits[k].change = "Update"
                             /\ ref_edits[k].name = origin_link
                             /\ ref_edits[k].new = want
                    /\ alone => /\ rpc = "done"
                                /\ origin_link \in DOMAIN refs
                                /\ refs[origin_link] = want
               ELSE /\ \E w \in 1..Len(ref_warnings) :
                          ref_warnings[w] = WarnOutside(link)
                    /\ \A k \in 1..Len(ref_edits) : ref_edits[k].name # origin_link
                    /\ alone => rpc = "done"

\* HEAD points outside the top namespace and refs/heads/dev, processed
\* after it, to a branch of the top namespace: the run ended well, with
\* the origin ref of dev newly made symbolic.
C14_Witness ==
    /\ rpc = "done"
    /\ "update_refs" \in Range(run_history)
    /\ Len(toprepo_symbolic_tips) = 2
    /\ toprepo_symbolic_tips[1][2].ns # "top"
    /\ toprepo_symbolic_tips[2][2].ns = "top"
    /\ \E k \in 1..Len(ref_edits) :
          /\ ref_edits[k].name = [ns |-> "origin", leaf |-> toprepo_symbolic_tips[2][1].leaf]
          /\ ref_edits[k].change = "Update"
    /\ [ns |-> "origin", leaf |-> toprepo_symbolic_tips[2][1].leaf] \in DOMAIN refs
    /\ refs[[ns |-> "origin", leaf |-> toprepo_symbolic_tips[2][1].leaf]].kind = "Symbolic"

\* The refs the run has looked at: every ref of the top namespace in
\* refilter, the refs argument in expand_toprepo_refs.
ScannedNames ==
    IF operation = None THEN {}
    ELSE IF Unwrap(operation).name = "refilter" THEN { n \in DOMAIN refs : n.ns = "top" }
    ELSE Range(Unwrap(operation).refs) \cap DOMAIN refs

\* Those of them that resolve to a tree or a blob.
TreeOrBlobNames ==
    { n \in ScannedNames :
        /\ IsSome(follow_to_object(refs, n))
        /\ Kind(Unwrap(follow_to_object(refs, n))) \in {"Tree", "Blob"} }

\* C15: during and after a run of refilter or expand_toprepo_refs a scanned
\* ref that resolves to a tree or a blob is no tip handed to the expander,
\* is no symbolic tip and gets no update, does not keep the origin ref of
\* its name from being deleted, and has its warning when the scan got to
\* the end of the refs.
C15_TreeAndBlobRefsSkipped ==
    \A n \in TreeOrBlobNames :
        LET origin == [ns |-> "origin", leaf |-> n.leaf]
            kind == Kind(Unwrap(follow_to_object(refs, n)))
        IN /\ n \notin Range(toprepo_object_tip_names)
           /\ Len(toprepo_object_tip_names) = Len(toprepo_object_tip_ids)
           /\ \A i \in 1..Len(toprepo_object_tip_ids) :
                 Kind(toprepo_object_tip_ids[i]) \notin {"Tree", "Blob"}
           /\ \A i \in 1..Len(toprepo_symbolic_tips) : toprepo_symbolic_tips[i][1] # n
           /\ \A k \in 1..Len(ref_edits) :
                 ref_edits[k].name = origin => ref_edits[k].change = "Delete"
           /\ origin \notin new_origin_ref_names
           /\ ("update_refs" \in Range(run_history) /\ origin \in DOMAIN old_origin_refs) =>
                 \E k \in 1..Len(ref_edits) :
                    ref_edits[k].name = origin /\ ref_edits[k].change = "Delete"
           /\ ref_result \notin {ErrResolve, ErrFindReference, PanicSymbolic} =>
                 IF kind = "Tree" THEN WarnTree(n) \in Range(ref_warnings)
                 ELSE WarnBlob(n) \in Range(ref_warnings)

\* refilter has ended well with refs/heads/main at a tree: the origin ref
\* main of the earlier run is deleted.
C15_Witness ==
    /\ rpc = "done"
    /\ "update_refs" \in Range(run_history)
    /\ [ns |-> "top", leaf |-> "main"] \in TreeOrBlobNames
    /\ [ns |-> "origin", leaf |-> "main"] \in DOMAIN old_origin_refs
    /\ [ns |-> "origin", leaf |-> "main"] \notin DOMAIN refs
    /\ toprepo_object_tip_names # <<>>

\* The place of the first `event` in the history of the run, 0 without one.
FirstAt(event) ==
    IF event \in Range(run_history)
    THEN CHOOSE i \in 1..Len(run_history) :
            /\ run_history[i] = event
            /\ \A j \in 1..(i - 1) : run_history[j] # event
    ELSE 0

\* C16: in a run of refilter update_refs is invoked at most once, after
\* expand_toprepo_commits and then wait have succeeded, and the run is over
\* with it; after a failed expansion or a failed wait the run has failed,
\* update_refs was not invoked and there are no ref edits.
C16_UpdateRefsOnlyAfterExpansion ==
    (IsSome(operation) /\ Unwrap(operation).name = "refilter") =>
        /\ "update_refs" \in Range(run_history) =>
              /\ 0 < FirstAt("expanded")
              /\ FirstAt("expanded") < FirstAt("waited")
              /\ FirstAt("waited") < FirstAt("update_refs")
              /\ \A j \in 1..Len(run_history) :
                    j > FirstAt("update_refs") => run_history[j] = "concurrent edit"
              /\ rpc \in {"done", "failed"}
        /\ ("expand failed" \in Range(run_history) \/ "wait failed" \in Range(run_history)) =>
              /\ "update_refs" \notin Range(run_history)
              /\ ref_edits = <<>>
              /\ rpc = "failed"
        /\ "update_refs" \notin Range(run_history) => ref_edits = <<>>

\* A run of refilter whose wait failed after a successful expansion, with
\* a stale origin ref that update_refs would have deleted.
C16_Witness ==
    /\ IsSome(operation)
    /\ Unwrap(operation).name = "refilter"
    /\ "expanded" \in Range(run_history)
    /\ "wait failed" \in Range(run_history)
    /\ rpc = "failed"
    /\ \E name \in DOMAIN old_origin_refs : name \notin new_origin_ref_names

(***************************************************************************)
(* Properties of the push run: order of the written commits                *)
(***************************************************************************)
\* The commit ids the nodes of the cache recorded before the run: their
\* top bumps, their submodule commits and their submodule parents.
CacheCommitIds ==
    LET cache == <<CacheNode1, CacheNode2, CacheNode3>>
    IN UNION { { cache[n].top_bump[k] : k \in 1..Len(cache[n].top_bump) }
              \cup { cache[n].submodule_bumps[q].submod.commit_id :
                       q \in { r \in DOMAIN cache[n].submodule_bumps :
                                 cache[n].submodule_bumps[r].kind = "Expanded" } }
              \cup { cache[n].parents[k].commit_id :
                       k \in { j \in 1..Len(cache[n].parents) :
                                 cache[n].parents[j].kind = "OriginalSubmod" } } :
            n \in 1..Len(cache) }

\* C17: every parent of a commit written to fast-import is the mark of a
\* commit written before it in the run, or the id of a commit the cache
\* recorded before the run and not the id of a commit written in the run;
\* so a parent that was written in the run was written before its child
\* and is named by its import reference.
C17_ParentsWrittenFirst ==
    \A i \in 1..Len(fast_import) :
        \A p \in 1..Len(fast_import[i].parents) :
            LET parent == fast_import[i].parents[p]
            IN IF parent.kind = "Mark"
               THEN parent.v \in 1..(i - 1)
               ELSE /\ parent.kind = "CommitId"
                    /\ parent.v \in CacheCommitIds
                    /\ \A j \in 1..Len(fast_import) : fast_import[j].id # parent.v

\* A commit has been written onto a commit of this run, named by its mark,
\* after a commit written onto a commit of the cache, named by its id.
C17_Witness ==
    \E i, j \in 1..Len(fast_import) :
        /\ i < j
        /\ \E p \in 1..Len(fast_import[i].parents) : fast_import[i].parents[p].kind = "CommitId"
        /\ \E p \in 1..Len(fast_import[j].parents) : fast_import[j].parents[p] = [kind |-> "Mark", v |-> i]

(***************************************************************************)
(* ThinCommit                                                              *)
(***************************************************************************)
\* ThinSubmodule
AddedOrModified(content) == [kind |-> "AddedOrModified", content |-> content]
ThinSubmodule_Removed == [kind |-> "Removed"]

\* ThinSubmoduleContent
ThinSubmoduleContent(repo_name, commit_id) == [repo_name |-> repo_name, commit_id |-> commit_id]

\* (mutant) The depth is one more than that of the first parent.
ThinDepth_of_first_parent(nodes, parents) ==
    IF parents = <<>> THEN 0 ELSE nodes[parents[1]].depth + 1

\* parents.iter().map(|p| p.depth + 1).max().unwrap_or(0). The depth is a
\* u32; it would wrap on a chain of 2^32 commits only, far above MaxNodes.
ThinDepth(nodes, parents) ==
    LET depths == { nodes[parents[i]].depth + 1 : i \in 1..Len(parents) }
    IN IF depths = {} THEN 0 ELSE Max(depths)

\* (mutant) A removed submodule stays in the set.
ThinSubmodulePaths_never_removing(nodes, parents, submodule_bumps) ==
    (IF parents # <<>> THEN nodes[parents[1]].submodule_paths ELSE {})
        \cup { p \in DOMAIN submodule_bumps : submodule_bumps[p].kind = "AddedOrModified" }

\* The submodule_paths of a new ThinCommit: those of the first parent with
\* the bumps applied (a path has one bump at most, so the order of the
\* loop does not matter).
ThinSubmodulePaths(nodes, parents, submodule_bumps) ==
    LET inherited == IF parents # <<>> THEN nodes[parents[1]].submodule_paths ELSE {}
        added == { p \in DOMAIN submodule_bumps : submodule_bumps[p].kind = "AddedOrModified" }
        removed == { p \in DOMAIN submodule_bumps : submodule_bumps[p].kind = "Removed" }
    IN (inherited \cup added) \ removed

\* ThinCommit::new_rc; `nodes` is the heap the parents live in, a parent is
\* the index of its node. tree_id and dot_gitmodules are stored as given
\* and read by nothing here.
ThinCommit_new_rc(nodes, commit_id, parents, submodule_bumps) ==
    [commit_id |-> commit_id,
     depth |-> ThinDepth(nodes, parents),
     parents |-> parents,
     submodule_bumps |-> submodule_bumps,
     submodule_paths |-> ThinSubmodulePaths(nodes, parents, submodule_bumps)]

RECURSIVE ThinCommit_get_submodule(_, _, _)
\* ThinCommit::get_submodule: the first bump of the path on the chain of
\* first parents.
ThinCommit_get_submodule(nodes, n, path) ==
    IF path \in DOMAIN nodes[n].submodule_bumps THEN Some(nodes[n].submodule_bumps[path])
    ELSE IF nodes[n].parents = <<>> THEN None
    ELSE ThinCommit_get_submodule(nodes, nodes[n].parents[1], path)

\* (mutant) The walk stops at a commit of the depth of the ancestor.
IsAncestor_by_depth(nodes, descendant, ancestor) ==
    nodes[descendant].depth = nodes[ancestor].depth

\* descendant.commit_id == ancestor.commit_id
IsAncestor(nodes, descendant, ancestor) ==
    nodes[descendant].commit_id = nodes[ancestor].commit_id

\* (mutant) A parent as deep as the ancestor is pruned as well.
DeepEnough_strictly(nodes, descendant_parent, ancestor) ==
    nodes[descendant_parent].depth > nodes[ancestor].depth

\* descendant_parent.depth >= ancestor.depth
DeepEnough(nodes, descendant_parent, ancestor) ==
    nodes[descendant_parent].depth >= nodes[ancestor].depth

RECURSIVE PushParents(_, _, _, _, _)
\* is_descendant_of: the loop over descendant.parents, from the i-th on; st
\* holds queue (a Vec used as a stack) and visited (commit ids).
PushParents(nodes, parents, i, ancestor, st) ==
    IF i > Len(parents) THEN st
    ELSE IF DeepEnough(nodes, parents[i], ancestor)
            /\ nodes[parents[i]].commit_id \notin st.visited
       THEN PushParents(nodes, parents, i + 1, ancestor,
                [queue |-> Append(st.queue, parents[i]),
                 visited |-> st.visited \cup {nodes[parents[i]].commit_id}])
    ELSE PushParents(nodes, parents, i + 1, ancestor, st)

RECURSIVE DescendantLoop(_, _, _)
\* is_descendant_of: while let Some(descendant) = queue.pop()
DescendantLoop(nodes, ancestor, st) ==
    IF st.queue = <<>> THEN FALSE
    ELSE LET descendant == st.queue[Len(st.queue)]
             popped == [st EXCEPT !.queue = SubSeq(st.queue, 1, Len(st.queue) - 1)]
         IN IF IsAncestor(nodes, descendant, ancestor) THEN TRUE
            ELSE DescendantLoop(nodes, ancestor,
                     PushParents(nodes, nodes[descendant].parents, 1, ancestor, popped))

\* ThinCommit::is_descendant_of
is_descendant_of(nodes, self, ancestor) ==
    DescendantLoop(nodes, ancestor,
        [queue |-> <<self>>, visited |-> {nodes[self].commit_id}])

(***************************************************************************)
(* Building the commit graphs                                              *)
(***************************************************************************)
GraphPaths == {<<"a">>, <<"b">>}

\* The maps from some of the paths to a value of `values`.
BumpMaps(paths, values) == UNION { [ps -> values] : ps \in SUBSET paths }

\* The parent lists over `candidates`: none, one, or two different ones.
ParentLists(candidates) ==
    {<<>>} \cup { <<x>> : x \in candidates }
           \cup { <<pair[1], pair[2]>> :
                    pair \in { q \in candidates \X candidates : q[1] # q[2] } }

\* (mutant) The set object of the first parent is kept whenever the bumps
\* leave the set of paths as it was.
KeepsParentSet_when_unchanged(has_first_parent, inherited, submodule_bumps, submodule_paths) ==
    has_first_parent /\ submodule_paths = inherited

\* new_rc: submodule_paths starts as a clone of the first parent's Rc, which
\* is the same set object, and every iteration of the loop over
\* submodule_bumps replaces it by Rc::new of a copy; without a first parent
\* it starts as Rc::new of the empty set.  The parent's object is kept when
\* the loop runs no iteration.
KeepsParentSet(has_first_parent, inherited, submodule_bumps, submodule_paths) ==
    has_first_parent /\ DOMAIN submodule_bumps = {}

RECURSIVE ThinPathsRc(_, _)
\* The set object behind the submodule_paths of a ThinCommit, named after
\* the commit whose new_rc allocated it.
ThinPathsRc(nodes, n) ==
    LET parents == nodes[n].parents
        inherited == IF parents # <<>> THEN nodes[parents[1]].submodule_paths ELSE {}
    IN IF KeepsParentSet(parents # <<>>, inherited, nodes[n].submodule_bumps,
                         nodes[n].submodule_paths)
       THEN ThinPathsRc(nodes, parents[1])
       ELSE n

RECURSIVE MonoPathsRc(_, _)
\* The set object behind the submodule_paths of a MonoRepoCommit, named
\* after the commit whose new_rc allocated it.
MonoPathsRc(nodes, n) ==
    LET fp == FirstMonoParent(nodes, n)
        inherited == IF IsSome(fp) THEN nodes[Unwrap(fp)].submodule_paths ELSE {}
    IN IF KeepsParentSet(IsSome(fp), inherited, nodes[n].submodule_bumps,
                         nodes[n].submodule_paths)
       THEN MonoPathsRc(nodes, Unwrap(fp))
       ELSE n

\* No commit is built and no run is under way.
InitGraph == PushIdle /\ MsgIdle /\ RefsIdle /\ GraphIdle /\ ResolveIdle /\ CreateIdle /\ InjectIdle

\* A ThinCommit is built on commits built before it.
NewThinCommit ==
    /\ Len(thin_commits) + Len(mono_nodes) < MaxNodes
    /\ \E parents \in ParentLists(1..Len(thin_commits)) :
       \E submodule_bumps \in BumpMaps(GraphPaths,
              { AddedOrModified(ThinSubmoduleContent(Some(<<"a">>), 21)),
                ThinSubmodule_Removed }) :
          thin_commits' = Append(thin_commits,
              ThinCommit_new_rc(thin_commits, 300 + Len(thin_commits) + 1, parents,
                                submodule_bumps))
    /\ descendant_call' = None
    /\ UNCHANGED <<pushVars, msgVars, refVars, resolveVars, createVars, injectVars>>

\* is_descendant_of is called on two commits of the graph.
IsDescendantOf ==
    /\ \E self \in 1..Len(thin_commits), ancestor \in 1..Len(thin_commits) :
          descendant_call' = Some([self |-> self, ancestor |-> ancestor,
                                   returned |-> is_descendant_of(thin_commits, self, ancestor)])
    /\ UNCHANGED <<thin_commits, pushVars, msgVars, refVars, resolveVars, createVars, injectVars>>

\* A MonoRepoCommit is built on commits built before it and on commits of
\* a submodule.
NewMonoCommit ==
    /\ Len(thin_commits) + Len(mono_nodes) < MaxNodes
    /\ \E parents \in ParentLists({ MonoParent(n) : n \in 1..Len(mono_nodes) }
                                    \cup { OriginalSubmodParent(<<"a">>, 20) }) :
       \E top_bump \in {None, Some(11)} :
       \E submodule_bumps \in BumpMaps({<<"a">>},
              { Expanded(Submod("Expanded", <<"a">>, 21)), Removed }) :
          mono_nodes' = Append(mono_nodes,
              MonoRepoCommit_new_rc(mono_nodes, parents, top_bump, submodule_bumps))
    /\ UNCHANGED <<pc, result, dry_run, config, monorepo_commits, exported, n_entries,
                   imported_mono_commits, imported_submod_commits, fast_import,
                   to_push_metadata, uncollapsed, last_split, warnings, git_push_log,
                   failed_pushes, printed, msgVars, refVars, graphVars, resolveVars, createVars, injectVars>>

NextGraph ==
    \/ NewThinCommit
    \/ IsDescendantOf
    \/ NewMonoCommit

SpecGraph == InitGraph /\ [][NextGraph]_vars

(***************************************************************************)
(* Properties of the commit graphs                                         *)
(***************************************************************************)
\* C18: a ThinCommit without parents has depth 0, and one with parents has
\* depth 1 plus the greatest depth of its parents, which is more than the
\* depth of each parent.
C18_ThinDepth ==
    \A n \in 1..Len(thin_commits) :
        LET c == thin_commits[n]
        IN /\ c.parents = <<>> => c.depth = 0
           /\ c.parents # <<>> =>
                 /\ \A i \in 1..Len(c.parents) : c.depth > thin_commits[c.parents[i]].depth
                 /\ \E i \in 1..Len(c.parents) : c.depth = 1 + thin_commits[c.parents[i]].depth
                 /\ \A i \in 1..Len(c.parents) : c.depth >= 1 + thin_commits[c.parents[i]].depth

\* A merge whose second parent is deeper than its first.
C18_Witness ==
    \E n \in 1..Len(thin_commits) :
        /\ Len(thin_commits[n].parents) = 2
        /\ thin_commits[thin_commits[n].parents[1]].depth
             < thin_commits[thin_commits[n].parents[2]].depth
        /\ thin_commits[n].depth = 2

\* The depths of the mono parents of a node.
MonoParentDepths(c) ==
    { mono_nodes[c.parents[i].node].depth :
        i \in { j \in 1..Len(c.parents) : c.parents[j].kind = "Mono" } }

\* C19: a MonoRepoCommit without a mono parent has depth 0, whatever
\* submodule parents it has, and one with mono parents has depth 1 plus the
\* greatest depth of them, at least 1 more than the depth of each.
C19_MonoDepth ==
    \A n \in 1..Len(mono_nodes) :
        LET c == mono_nodes[n]
        IN /\ MonoParentDepths(c) = {} => c.depth = 0
           /\ MonoParentDepths(c) # {} =>
                 /\ \A d \in MonoParentDepths(c) : c.depth >= d + 1
                 /\ \E d \in MonoParentDepths(c) : c.depth = d + 1

\* A commit with only a submodule parent, and a child of it that has a
\* submodule parent as well.
C19_Witness ==
    \E n, m \in 1..Len(mono_nodes) :
        /\ mono_nodes[n].parents # <<>>
        /\ \A i \in 1..Len(mono_nodes[n].parents) : mono_nodes[n].parents[i].kind = "OriginalSubmod"
        /\ mono_nodes[n].depth = 0
        /\ Len(mono_nodes[m].parents) = 2
        /\ mono_nodes[m].parents[1].kind = "OriginalSubmod"
        /\ mono_nodes[m].parents[2] = [kind |-> "Mono", node |-> n]
        /\ mono_nodes[m].depth = 1

RECURSIVE NearestBump(_, _)
\* The first bump of the path on the chain of first parents from node n,
\* or "none".
NearestBump(n, path) ==
    IF path \in DOMAIN thin_commits[n].submodule_bumps
    THEN thin_commits[n].submodule_bumps[path].kind
    ELSE IF thin_commits[n].parents = <<>> THEN "none"
    ELSE NearestBump(thin_commits[n].parents[1], path)

\* C20: a path is in the submodule_paths of a ThinCommit exactly when the
\* nearest bump of the path along the first parents, which is what
\* get_submodule returns, is AddedOrModified.
C20_PathsAreNearestBumps ==
    \A n \in 1..Len(thin_commits) :
        \A path \in GraphPaths :
            /\ path \in thin_commits[n].submodule_paths <=> NearestBump(n, path) = "AddedOrModified"
            /\ IF NearestBump(n, path) = "none"
               THEN ThinCommit_get_submodule(thin_commits, n, path) = None
               ELSE /\ IsSome(ThinCommit_get_submodule(thin_commits, n, path))
                    /\ Unwrap(ThinCommit_get_submodule(thin_commits, n, path)).kind
                         = NearestBump(n, path)

\* A submodule added, removed by the child and added again by the
\* grandchild: in, out and in again.
C20_Witness ==
    \E path \in GraphPaths :
    \E n \in 1..Len(thin_commits) :
        /\ path \in thin_commits[n].submodule_paths
        /\ thin_commits[n].parents # <<>>
        /\ LET parent == thin_commits[n].parents[1]
           IN /\ path \notin thin_commits[parent].submodule_paths
              /\ thin_commits[parent].parents # <<>>
              /\ path \in thin_commits[thin_commits[parent].parents[1]].submodule_paths

\* The call of is_descendant_of the state holds, if any.
Called(self, ancestor) ==
    /\ IsSome(descendant_call)
    /\ Unwrap(descendant_call).self = self
    /\ Unwrap(descendant_call).ancestor = ancestor

\* C21: is_descendant_of(a, a) returned true, and when is_descendant_of(a, b)
\* returned true for commits with different ids, is_descendant_of(b, a)
\* returns false.
C21_DescendantReflexiveAntisymmetric ==
    \A a, b \in 1..Len(thin_commits) :
        Called(a, b) =>
            /\ a = b => Unwrap(descendant_call).returned
            /\ (thin_commits[a].commit_id # thin_commits[b].commit_id
                  /\ Unwrap(descendant_call).returned) =>
                  ~is_descendant_of(thin_commits, b, a)

\* is_descendant_of returned true for a merge and its second parent, which
\* is as deep as the first.
C21_Witness ==
    \E a, b \in 1..Len(thin_commits) :
        /\ Called(a, b)
        /\ Unwrap(descendant_call).returned
        /\ Len(thin_commits[a].parents) = 2
        /\ thin_commits[a].parents[2] = b
        /\ thin_commits[thin_commits[a].parents[1]].depth = thin_commits[b].depth

RECURSIVE ParentClosure(_)
\* The commits reached from those of S by parent links, S included.
ParentClosure(S) ==
    LET up == S \cup UNION { { thin_commits[n].parents[i] :
                                 i \in 1..Len(thin_commits[n].parents) } : n \in S }
    IN IF up = S THEN S ELSE ParentClosure(up)

\* C22: is_descendant_of(a, b) returned, and it returned true exactly when
\* a commit with the id of b is reached from a by zero or more parent
\* links.
C22_DescendantIsReachability ==
    \A a, b \in 1..Len(thin_commits) :
        Called(a, b) =>
            /\ Unwrap(descendant_call).returned \in BOOLEAN
            /\ Unwrap(descendant_call).returned <=>
                  \E n \in ParentClosure({a}) :
                      thin_commits[n].commit_id = thin_commits[b].commit_id

\* is_descendant_of returned true for a merge whose first parent, less deep
\* than the ancestor, was pruned, the ancestor being its second parent.
C22_Witness ==
    \E a, b \in 1..Len(thin_commits) :
        /\ Called(a, b)
        /\ Unwrap(descendant_call).returned
        /\ Len(thin_commits[a].parents) = 2
        /\ thin_commits[a].parents[2] = b
        /\ thin_commits[thin_commits[a].parents[1]].depth < thin_commits[b].depth

(***************************************************************************)
(* resolve_push_repo on its own                                            *)
(***************************************************************************)
AbsUrl(segs) == [relative |-> FALSE, up |-> 0, segs |-> segs]

\* A tree from the .gitmodules files it holds: pairs of the directory of
\* the file and the submodules the file lists.
TreeOf(files) ==
    [p \in { PathJoin(f[1], DotGitmodules) : f \in files } |->
        (CHOOSE f \in files : PathJoin(f[1], DotGitmodules) = p)[2]]

\* The trees of the mono commits resolved: without .gitmodules; with "a"
\* and "b" at the root; with "i" inside "a" as well, and "b" inside "a/i";
\* with a URL of "a" that cannot be parsed; with "i" inside "a" having such
\* a URL.
ResolveTrees ==
    { TreeOf({}),
      TreeOf({ <<<<>>, {[path |-> <<"a">>, url |-> RelUrl(1, <<"a">>)],
                        [path |-> <<"b">>, url |-> AbsUrl(<<"srv2", "b">>)]}>> }),
      TreeOf({ <<<<>>, {[path |-> <<"a">>, url |-> RelUrl(1, <<"a">>)],
                        [path |-> <<"b">>, url |-> AbsUrl(<<"srv2", "b">>)]}>>,
               <<<<"a">>, {[path |-> <<"i">>, url |-> RelUrl(2, <<"g", "i">>)]}>>,
               <<<<"a", "/", "i">>, {[path |-> <<"b">>, url |-> RelUrl(1, <<"b">>)]}>> }),
      TreeOf({ <<<<>>, {[path |-> <<"a">>, url |-> InvalidUrl]}>> }),
      TreeOf({ <<<<>>, {[path |-> <<"a">>, url |-> RelUrl(1, <<"a">>)]}>>,
               <<<<"a">>, {[path |-> <<"i">>, url |-> InvalidUrl]}>> }) }

ResolvePaths ==
    { <<"x">>, <<"a">>, <<"a", "b", "/", "x">>, <<"a", "/", "x">>, <<"b", "/", "y">>,
      <<"a", "/", "i">>, <<"a", "/", "i", "/", "x">>, <<"a", "/", "i", "/", "b", "/", "x">> }

ResolveConfigs == { {}, {<<"a">>}, {<<"srv2", "b">>} }

BasePushUrls == { TopPushUrl, <<"mirror", "host", "top">>, <<"top">> }

InitResolve ==
    /\ PushIdle
    /\ MsgIdle
    /\ RefsIdle
    /\ GraphIdle
    /\ CreateIdle
    /\ InjectIdle
    /\ resolve_in \in { Some([tree |-> t, path |-> q, config |-> c]) :
                          t \in ResolveTrees, q \in ResolvePaths, c \in ResolveConfigs }
    /\ resolve_calls = <<>>

\* resolve_push_repo is called with a base push URL, on the config store as
\* it was given.
ResolvePushRepo ==
    /\ IsSome(resolve_in)
    /\ Len(resolve_calls) < MaxCalls
    /\ \E push_url \in BasePushUrls :
          resolve_calls' = Append(resolve_calls,
              [push_url |-> push_url,
               returned |-> resolve_push_repo(Unwrap(resolve_in).tree, Unwrap(resolve_in).path,
                                              push_url, Unwrap(resolve_in).config)])
    /\ UNCHANGED <<resolve_in, pushVars, msgVars, refVars, graphVars, createVars, injectVars>>

NextResolve == ResolvePushRepo

SpecResolve == InitResolve /\ [][NextResolve]_vars

(***************************************************************************)
(* Properties of resolve_push_repo                                         *)
(***************************************************************************)
\* The submodules listed by the .gitmodules file in directory dir of the
\* tree resolved; none without the file.
ListedIn(dir) ==
    LET tree == Unwrap(resolve_in).tree
        file == IF dir = <<>> THEN DotGitmodules ELSE dir \o <<"/">> \o DotGitmodules
    IN IF file \in DOMAIN tree THEN tree[file] ELSE {}

\* The path lies inside the directory `mount`.
Inside(mount, path) ==
    /\ Len(path) > Len(mount) + 1
    /\ SubSeq(path, 1, Len(mount) + 1) = mount \o <<"/">>

\* C23: when the root of the tree has no .gitmodules file, or the file
\* lists no submodule containing the path, resolve_push_repo returns Top,
\* the empty mount path, the path and the base push URL as they were given.
C23_OutsideSubmodulesIsTop ==
    \A k \in 1..Len(resolve_calls) :
        (\A e \in ListedIn(<<>>) : ~Inside(e.path, Unwrap(resolve_in).path)) =>
            /\ resolve_calls[k].returned.err = "none"
            /\ resolve_calls[k].returned.repo_name = [kind |-> "Top", name |-> <<>>]
            /\ resolve_calls[k].returned.submod_path = <<>>
            /\ resolve_calls[k].returned.rel_path = Unwrap(resolve_in).path
            /\ resolve_calls[k].returned.push_url = resolve_calls[k].push_url

\* The root lists submodules, none of them containing the path, which
\* begins like one of them: the call returned Top.
C23_Witness ==
    /\ IsSome(resolve_in)
    /\ \E e \in ListedIn(<<>>) :
          /\ Len(Unwrap(resolve_in).path) > Len(e.path)
          /\ SubSeq(Unwrap(resolve_in).path, 1, Len(e.path)) = e.path
          /\ ~Inside(e.path, Unwrap(resolve_in).path)
    /\ Len(resolve_calls) > 0
    /\ resolve_calls[1].returned.repo_name.kind = "Top"

RECURSIVE MountOf(_, _)
\* The directory the first i submodules of the chain lead to.
MountOf(chain, i) ==
    IF i = 0 THEN <<>>
    ELSE IF MountOf(chain, i - 1) = <<>> THEN chain[i].path
    ELSE MountOf(chain, i - 1) \o <<"/">> \o chain[i].path

RECURSIVE JoinedUrl(_, _, _)
\* The base joined with the URLs of the first i submodules of the chain,
\* one after the other.
JoinedUrl(base, chain, i) ==
    IF i = 0 THEN base ELSE UrlJoin(JoinedUrl(base, chain, i - 1), chain[i].url)

\* The chains of submodules of the tree resolved, each listed by the
\* .gitmodules file in the directory of the one before it and containing
\* the path.
NestedChains ==
    LET tree == Unwrap(resolve_in).tree
        listed == UNION { tree[f] : f \in DOMAIN tree }
    IN { chain \in UNION { [1..k -> listed] : k \in 0..3 } :
           \A i \in 1..Len(chain) :
              /\ chain[i] \in ListedIn(MountOf(chain, i - 1))
              /\ Inside(MountOf(chain, i), Unwrap(resolve_in).path) }

\* C24: a call that returned Ok went down a chain of nested submodules, each
\* read from the .gitmodules file of the level before: the mount path is
\* that of the chain, the relative path is the rest of the path, no
\* submodule of the last level contains it, the push URL is the base
\* joined with the URL of each level in turn, and the repo is Top for the
\* empty chain and else the sub-repo of the URLs joined from the empty
\* base.
C24_InnermostSubmodule ==
    \A k \in 1..Len(resolve_calls) :
        LET r == resolve_calls[k].returned
            path == Unwrap(resolve_in).path
        IN r.err = "none" =>
              \E chain \in NestedChains :
                 LET n == Len(chain)
                 IN /\ r.submod_path = MountOf(chain, n)
                    /\ path = (IF n = 0 THEN r.rel_path
                               ELSE MountOf(chain, n) \o <<"/">> \o r.rel_path)
                    /\ \A e \in ListedIn(MountOf(chain, n)) : ~Inside(e.path, r.rel_path)
                    /\ r.push_url = JoinedUrl(resolve_calls[k].push_url, chain, n)
                    /\ r.repo_name = (IF n = 0 THEN [kind |-> "Top", name |-> <<>>]
                                      ELSE [kind |-> "SubRepo",
                                            name |-> JoinedUrl(<<>>, chain, n)])

\* A call went down three levels, to the submodule b inside a/i.
C24_Witness ==
    \E k \in 1..Len(resolve_calls) :
        /\ resolve_calls[k].returned.err = "none"
        /\ resolve_calls[k].returned.submod_path = <<"a", "/", "i", "/", "b">>
        /\ resolve_calls[k].returned.rel_path = <<"x">>
        /\ resolve_calls[k].returned.repo_name.kind = "SubRepo"

\* C25: two calls on the same tree, path and config store return the same
\* repo name, mount path and relative path, register the same URLs in the
\* config store and fail alike, whatever their base push URLs.
C25_IdentityIgnoresPushUrl ==
    \A k, l \in 1..Len(resolve_calls) :
        /\ resolve_calls[k].returned.repo_name = resolve_calls[l].returned.repo_name
        /\ resolve_calls[k].returned.submod_path = resolve_calls[l].returned.submod_path
        /\ resolve_calls[k].returned.rel_path = resolve_calls[l].returned.rel_path
        /\ resolve_calls[k].returned.config = resolve_calls[l].returned.config
        /\ resolve_calls[k].returned.err = resolve_calls[l].returned.err

\* Two calls with different base push URLs resolved the path to a sub-repo
\* that was not in the config store, and returned different push URLs.
C25_Witness ==
    /\ Len(resolve_calls) = 2
    /\ resolve_calls[1].push_url # resolve_calls[2].push_url
    /\ resolve_calls[1].returned.err = "none"
    /\ resolve_calls[1].returned.repo_name.kind = "SubRepo"
    /\ resolve_calls[1].returned.push_url # resolve_calls[2].returned.push_url
    /\ resolve_calls[1].returned.config # Unwrap(resolve_in).config

\* ---------------------------------------------------------------------------
\* TopRepo::create, TopRepo::open and TopRepo::fetch_toprepo
\* ---------------------------------------------------------------------------

\* A fetch refspec "+<src>:<dst>"; with glob, "<src>*" is copied to "<dst>*".
Refspec(src, dst, glob) == [force |-> TRUE, src |-> src, dst |-> dst, glob |-> glob]

PushUrlError == "https://ERROR.invalid/Please use 'git toprepo push ...' instead"
OriginHead == <<"refs/remotes/origin/", "HEAD">>

\* The git-config keys the model follows.
ConfigKeys == { "remote.origin.pushUrl", "remote.origin.url", "remote.origin.fetch",
                "remote.origin.tagOpt", "toprepo.config" }

\* The git commands of TopRepo::create with every fetch entry appended.
CreateCommands_adding_heads(url) ==
    LET toprepo_ref_prefix == to_ref_prefix(Top)
    IN << [cmd |-> "init"],
          [cmd |-> "config", key |-> "remote.origin.pushUrl", value |-> PushUrlError],
          [cmd |-> "config", key |-> "remote.origin.url", value |-> url],
          [cmd |-> "config --add", key |-> "remote.origin.fetch",
           value |-> Refspec(<<"refs/heads/">>, toprepo_ref_prefix \o <<"refs/heads/">>, TRUE)],
          [cmd |-> "config --add", key |-> "remote.origin.fetch",
           value |-> Refspec(<<"refs/tags/">>, toprepo_ref_prefix \o <<"refs/tags/">>, TRUE)],
          [cmd |-> "config --add", key |-> "remote.origin.fetch",
           value |-> Refspec(<<"HEAD">>, toprepo_ref_prefix \o <<"HEAD">>, FALSE)],
          [cmd |-> "config", key |-> "remote.origin.tagOpt", value |-> "--no-tags"],
          [cmd |-> "config", key |-> "toprepo.config",
           value |-> "repo:refs/remotes/origin/HEAD:.gittoprepo.toml"],
          [cmd |-> "symbolic-ref", name |-> OriginHead] >>

\* The git commands of TopRepo::create with heads and tags copied to the
\* namespace root.
CreateCommands_flat(url) ==
    LET toprepo_ref_prefix == to_ref_prefix(Top)
    IN << [cmd |-> "init"],
          [cmd |-> "config", key |-> "remote.origin.pushUrl", value |-> PushUrlError],
          [cmd |-> "config", key |-> "remote.origin.url", value |-> url],
          [cmd |-> "config --replace-all", key |-> "remote.origin.fetch",
           value |-> Refspec(<<"refs/heads/">>, toprepo_ref_prefix, TRUE)],
          [cmd |-> "config --add", key |-> "remote.origin.fetch",
           value |-> Refspec(<<"refs/tags/">>, toprepo_ref_prefix, TRUE)],
          [cmd |-> "config --add", key |-> "remote.origin.fetch",
           value |-> Refspec(<<"HEAD">>, toprepo_ref_prefix \o <<"HEAD">>, FALSE)],
          [cmd |-> "config", key |-> "remote.origin.tagOpt", value |-> "--no-tags"],
          [cmd |-> "config", key |-> "toprepo.config",
           value |-> "repo:refs/remotes/origin/HEAD:.gittoprepo.toml"],
          [cmd |-> "symbolic-ref", name |-> OriginHead] >>

\* TopRepo::create: the git commands it runs, in order.
CreateCommands(url) ==
    LET toprepo_ref_prefix == to_ref_prefix(Top)
    IN << [cmd |-> "init"],
          [cmd |-> "config", key |-> "remote.origin.pushUrl", value |-> PushUrlError],
          [cmd |-> "config", key |-> "remote.origin.url", value |-> url],
          [cmd |-> "config --replace-all", key |-> "remote.origin.fetch",
           value |-> Refspec(<<"refs/heads/">>, toprepo_ref_prefix \o <<"refs/heads/">>, TRUE)],
          [cmd |-> "config --add", key |-> "remote.origin.fetch",
           value |-> Refspec(<<"refs/tags/">>, toprepo_ref_prefix \o <<"refs/tags/">>, TRUE)],
          [cmd |-> "config --add", key |-> "remote.origin.fetch",
           value |-> Refspec(<<"HEAD">>, toprepo_ref_prefix \o <<"HEAD">>, FALSE)],
          [cmd |-> "config", key |-> "remote.origin.tagOpt", value |-> "--no-tags"],
          [cmd |-> "config", key |-> "toprepo.config",
           value |-> "repo:refs/remotes/origin/HEAD:.gittoprepo.toml"],
          [cmd |-> "symbolic-ref", name |-> OriginHead] >>

\* A directory git-init has just made a repository.
FreshDir ==
    [config |-> [k \in ConfigKeys |-> <<>>],
     HEAD |-> Symbolic(<<"refs/heads/", "master">>),
     refs |-> <<>>]

\* One git command on a directory: the directory afterwards and whether the
\* command succeeded.  git-init leaves an existing repository as it is;
\* git-config without an option refuses a key that holds several values.
RunGit(dir, c) ==
    IF c.cmd = "init"
    THEN [dir |-> IF IsSome(dir) THEN dir ELSE Some(FreshDir), ok |-> TRUE]
    ELSE IF ~IsSome(dir) THEN [dir |-> dir, ok |-> FALSE]
    ELSE LET d == Unwrap(dir)
         IN IF c.cmd = "config"
            THEN IF Len(d.config[c.key]) > 1
                 THEN [dir |-> dir, ok |-> FALSE]
                 ELSE [dir |-> Some([d EXCEPT !.config[c.key] = <<c.value>>]), ok |-> TRUE]
            ELSE IF c.cmd = "config --replace-all"
            THEN [dir |-> Some([d EXCEPT !.config[c.key] = <<c.value>>]), ok |-> TRUE]
            ELSE IF c.cmd = "config --add"
            THEN [dir |-> Some([d EXCEPT !.config[c.key] = Append(@, c.value)]), ok |-> TRUE]
            ELSE [dir |-> Some([d EXCEPT !.HEAD = Symbolic(c.name)]), ok |-> TRUE]

\* The `?` chain of TopRepo::create: the commands run in order and the first
\* one that fails ends the function.  fail_at is the command the environment
\* makes fail (0: none).
RECURSIVE RunCommands(_, _, _, _)
RunCommands(dir, commands, i, fail_at) ==
    IF i > Len(commands) THEN [dir |-> dir, ok |-> TRUE]
    ELSE IF i = fail_at THEN [dir |-> dir, ok |-> FALSE]
    ELSE LET r == RunGit(dir, commands[i])
         IN IF r.ok THEN RunCommands(r.dir, commands, i + 1, fail_at) ELSE r

\* TopRepo::open: the directory is a repository with a default remote url.
open(dir) ==
    /\ IsSome(dir)
    /\ Len(Unwrap(dir).config["remote.origin.url"]) >= 1

\* TopRepo::create
create(dir, url, fail_at) ==
    LET r == RunCommands(dir, CreateCommands(url), 1, fail_at)
    IN IF r.ok THEN [dir |-> r.dir, ok |-> open(r.dir)] ELSE r

\* The local names one refspec gives an upstream ref.
RefspecTargets(spec, name) ==
    IF spec.glob
    THEN IF Len(name) = 2 /\ <<name[1]>> = spec.src THEN { spec.dst \o <<name[2]>> } ELSE {}
    ELSE IF name = spec.src THEN { spec.dst } ELSE {}

\* git-fetch with the configured refspecs and no tag following: every upstream
\* ref a refspec matches is written, forced, under the refspec's destination;
\* nothing is pruned.
GitFetch(dir, remote_refs) ==
    LET specs == dir.config["remote.origin.fetch"]
        written == { <<local, remote>> \in
                       UNION { RefspecTargets(specs[i], remote) \X {remote} :
                               i \in DOMAIN specs, remote \in DOMAIN remote_refs } : TRUE }
        names == { w[1] : w \in written }
    IN [local \in names \cup DOMAIN dir.refs |->
          IF local \in names
          THEN remote_refs[(CHOOSE w \in written : w[1] = local)[2]]
          ELSE dir.refs[local]]

\* The urls create is given.
CreateUrls == { "https://example.com/top.git", "file:///srv/top.git" }

\* The upstream repositories: the one of test_create_and_fetch; one with a
\* branch and a tag of the same name and a ref outside heads and tags; one
\* with a detached HEAD and no tag.
UpstreamRepos ==
    { ( <<"HEAD">> :> 1 ) @@ ( <<"refs/heads/", "main">> :> 1 ) @@ ( <<"refs/tags/", "mytag">> :> 1 ),
      ( <<"HEAD">> :> 2 ) @@ ( <<"refs/heads/", "main">> :> 1 ) @@ ( <<"refs/heads/", "v">> :> 2 )
          @@ ( <<"refs/tags/", "v">> :> 3 ) @@ ( <<"refs/notes/", "commits">> :> 4 ),
      ( <<"HEAD">> :> 5 ) @@ ( <<"refs/heads/", "main">> :> 1 ) }

\* The directory before the first create: absent; a plain clone; a clone
\* with two push urls; a toprepo with a fetch entry added by hand and a ref
\* of an earlier fetch.
PriorDirs ==
    LET clone == [FreshDir EXCEPT
                    !.config["remote.origin.url"] = <<"https://example.com/top.git">>,
                    !.config["remote.origin.fetch"] =
                        <<Refspec(<<"refs/heads/">>, <<"refs/remotes/origin/">>, TRUE)>>,
                    !.HEAD = Symbolic(<<"refs/heads/", "main">>),
                    !.refs = ( <<"refs/remotes/origin/", "main">> :> 1 )]
        made == Unwrap(create(None, "file:///srv/top.git", 0).dir)
    IN { None,
         Some(clone),
         Some([clone EXCEPT !.config["remote.origin.pushUrl"] = <<"ssh://a/top.git", "ssh://b/top.git">>]),
         Some([made EXCEPT
                 !.config["remote.origin.fetch"] =
                     Append(@, Refspec(<<"refs/notes/">>, <<"refs/notes/">>, TRUE)),
                 !.refs = ( to_ref_prefix(Top) \o <<"refs/heads/", "old">> :> 9 )]) }

InitCreate ==
    /\ PushIdle
    /\ MsgIdle
    /\ RefsIdle
    /\ GraphIdle
    /\ ResolveIdle
    /\ InjectIdle
    /\ git_dir \in PriorDirs
    /\ create_log = <<>>
    /\ upstream \in UpstreamRepos
    /\ fetched = 0

\* TopRepo::create(directory, url), with the environment failing one of its
\* commands or none.
Create ==
    /\ Len(create_log) < MaxCalls
    /\ \E url \in CreateUrls : \E fail_at \in 0..Len(CreateCommands(url)) :
         \E r \in { create(git_dir, url, fail_at) } :
            /\ git_dir' = r.dir
            /\ create_log' = Append(create_log, [url |-> url, before |-> git_dir,
                                                  ok |-> r.ok, dir |-> r.dir])
    /\ UNCHANGED <<upstream, fetched, pushVars, msgVars, refVars, graphVars, resolveVars, injectVars>>

\* TopRepo::fetch_toprepo on the TopRepo the last create returned: git-fetch
\* from the remote; a failed fetch stores nothing.
FetchToprepo ==
    /\ create_log # <<>>
    /\ create_log[Len(create_log)].ok
    /\ fetched < MaxCalls
    /\ \E ok \in BOOLEAN :
         IF ok
         THEN /\ git_dir' = Some([Unwrap(git_dir) EXCEPT !.refs = GitFetch(Unwrap(git_dir), upstream)])
              /\ fetched' = fetched + 1
         ELSE UNCHANGED <<git_dir, fetched>>
    /\ UNCHANGED <<create_log, upstream, pushVars, msgVars, refVars, graphVars, resolveVars, injectVars>>

NextCreate == Create \/ FetchToprepo

SpecCreate == InitCreate /\ [][NextCreate]_vars

\* The three fetch entries into the top namespace.
TopFetchEntries ==
    << Refspec(<<"refs/heads/">>, <<"refs/namespaces/", <<"top">>, "/", "refs/heads/">>, TRUE),
       Refspec(<<"refs/tags/">>, <<"refs/namespaces/", <<"top">>, "/", "refs/tags/">>, TRUE),
       Refspec(<<"HEAD">>, <<"refs/namespaces/", <<"top">>, "/", "HEAD">>, FALSE) >>

\* C27: after a create that returned Ok, remote.origin.fetch holds exactly
\* the three entries for refs/heads/*, refs/tags/* and HEAD into
\* refs/namespaces/top/, whatever it held before; remote.origin.pushUrl is the
\* https://ERROR.invalid/ URL, remote.origin.tagOpt is --no-tags and HEAD is
\* symbolic to refs/remotes/origin/HEAD; two successful creates with the same
\* url leave the same configuration.
C27_CreateConfiguration ==
    /\ \A i \in DOMAIN create_log :
         create_log[i].ok =>
            LET d == Unwrap(create_log[i].dir)
            IN /\ d.config["remote.origin.fetch"] = TopFetchEntries
               /\ d.config["remote.origin.pushUrl"] =
                    <<"https://ERROR.invalid/Please use 'git toprepo push ...' instead">>
               /\ d.config["remote.origin.tagOpt"] = <<"--no-tags">>
               /\ d.HEAD = Symbolic(<<"refs/remotes/origin/", "HEAD">>)
    /\ \A i, j \in DOMAIN create_log :
         (create_log[i].ok /\ create_log[j].ok /\ create_log[i].url = create_log[j].url) =>
            /\ Unwrap(create_log[i].dir).config = Unwrap(create_log[j].dir).config
            /\ Unwrap(create_log[i].dir).HEAD = Unwrap(create_log[j].dir).HEAD

\* create succeeded on a directory whose remote.origin.fetch held other
\* entries, and succeeded again with the same url.
C27_Witness ==
    /\ Len(create_log) = 2
    /\ create_log[1].ok
    /\ create_log[2].ok
    /\ create_log[1].url = create_log[2].url
    /\ IsSome(create_log[1].before)
    /\ Unwrap(create_log[1].before).config["remote.origin.fetch"] # <<>>
    /\ Unwrap(create_log[1].before).config["remote.origin.fetch"] # TopFetchEntries
    /\ Unwrap(create_log[2].before).config["remote.origin.fetch"] = TopFetchEntries

\* The upstream refs the claim is about: HEAD, the branches and the tags.
UpstreamHeadBranchesTags ==
    { n \in DOMAIN upstream : n = <<"HEAD">> \/ n[1] \in {"refs/heads/", "refs/tags/"} }

\* The name under refs/namespaces/top/ with the same suffix.
NamespacedTop(n) == <<"refs/namespaces/", <<"top">>, "/">> \o n

\* The refs of the directory before the first create.
RefsBeforeCreate ==
    IF IsSome(create_log[1].before) THEN DOMAIN Unwrap(create_log[1].before).refs ELSE {}

\* C26: once a fetch has succeeded after create, every upstream HEAD,
\* refs/heads/<b> and refs/tags/<t> is stored under refs/namespaces/top/ with
\* the same suffix and the same object id, and every ref the fetch has put
\* under refs/namespaces/top/ is the image of exactly one of those upstream
\* names.
C26_FetchedIntoTopNamespace ==
    fetched >= 1 =>
        LET refs_now == Unwrap(git_dir).refs
        IN /\ \A n \in UpstreamHeadBranchesTags :
                /\ NamespacedTop(n) \in DOMAIN refs_now
                /\ refs_now[NamespacedTop(n)] = upstream[n]
           /\ \A local \in DOMAIN refs_now \ RefsBeforeCreate :
                StartsWith(local, <<"refs/namespaces/", <<"top">>, "/">>) =>
                    Cardinality({ n \in UpstreamHeadBranchesTags : NamespacedTop(n) = local }) = 1

\* A fetch has succeeded from the upstream with a branch and a tag of the
\* same name, different object ids and a ref outside heads and tags.
C26_Witness ==
    /\ fetched >= 1
    /\ <<"refs/notes/", "commits">> \in DOMAIN upstream
    /\ Unwrap(git_dir).refs[NamespacedTop(<<"refs/heads/", "v">>)] = 2
    /\ Unwrap(git_dir).refs[NamespacedTop(<<"refs/tags/", "v">>)] = 3
    /\ Unwrap(git_dir).refs[NamespacedTop(<<"HEAD">>)] = 2

\* ---------------------------------------------------------------------------
\* TopRepo::expand_submodule_ref_onto_head
\* ---------------------------------------------------------------------------

ErrFindCommit == "Failed to find <ref_to_inject>, commit <id_to_inject>"
ErrHead == "HEAD does not point to a commit"
ErrWalk == "get_first_known_commits failed"
ErrImporter == "FastImportRepo::new failed"
ErrInject == "inject_submodule_commit failed"
NoCommonHistory ==
    "Failed to inject commit <ref_to_inject>, to become <dest_ref>, at <abs_sub_path>: No common history with HEAD"

\* get_first_known_commits from HEAD with the closure of
\* expand_submodule_ref_onto_head: the walk goes down the history of HEAD,
\* skipping the commits that are not in storage.monorepo_commits, and stops
\* at the first one that is; that one is pushed to possible_mono_parents.
\* history lists the commits from HEAD backwards.
RECURSIVE FirstKnownMono(_, _)
FirstKnownMono(history, i) ==
    IF i > Len(history) THEN <<>>
    ELSE IF history[i].known THEN <<i>>
    ELSE FirstKnownMono(history, i + 1)

\* TopRepoExpander::inject_submodule_commit with
\* inject_at_oldest_super_commit: the oldest mono ancestor of HEAD, among
\* possible_mono_parents and their ancestors, that is a valid splice point
\* gets the injected commit as a child; None when there is no such ancestor.
\* The injected commit is recorded when it is written; writing may fail.
inject_submodule_commit(history, possible_mono_parents, inject_ok) ==
    LET valid == { i \in DOMAIN history :
                     /\ \E q \in Range(possible_mono_parents) : i >= q
                     /\ history[i].known
                     /\ history[i].valid }
    IN IF valid = {} THEN [err |-> FALSE, mono |-> None]
       ELSE IF ~inject_ok THEN [err |-> TRUE, mono |-> None]
       ELSE [err |-> FALSE, mono |-> Some(CHOOSE i \in valid : \A j \in valid : j <= i)]

\* (mutant) The closure around inject_submodule_commit taking None for
\* success.
InjectResult_none_is_ok(r) ==
    IF r.err THEN ErrInject ELSE "ok"

\* The closure around inject_submodule_commit: its error is passed on, None
\* bails with the no-common-history error, a mono commit is Ok.
InjectResult(r) ==
    IF r.err THEN ErrInject
    ELSE IF ~IsSome(r.mono) THEN NoCommonHistory
    ELSE "ok"

\* `expander.wait()?; result`: an error of wait() is returned in place of
\* the result of the closure.
AfterWait(closure_result, wait_ok) == IF wait_ok THEN closure_result ELSE ErrWait

\* (mutant) The closure's error leaves the function like a `?` would, before
\* expander.wait().
Waits_only_after_ok(closure_result) == closure_result = "ok"

\* expander.wait() is the statement after the closure, whatever the closure
\* returned.
Waits(closure_result) == TRUE

\* TopRepo::expand_submodule_ref_onto_head.  in is what the repository and
\* the cache hold, env says which of the calls into the environment succeed.
\* importer lists what was done with the fast-import child (history).
expand_submodule_ref_onto_head(in, env) ==
    IF ~in.ref_found THEN [returned |-> ErrFindReference, injected |-> None, importer |-> <<>>]
    ELSE IF ~in.thin_known THEN [returned |-> ErrFindCommit, injected |-> None, importer |-> <<>>]
    ELSE IF ~in.head_ok THEN [returned |-> ErrHead, injected |-> None, importer |-> <<>>]
    ELSE IF ~env.walk_ok THEN [returned |-> ErrWalk, injected |-> None, importer |-> <<>>]
    ELSE IF ~env.importer_ok THEN [returned |-> ErrImporter, injected |-> None, importer |-> <<>>]
    ELSE LET possible_mono_parents == FirstKnownMono(in.history, 1)
             r == inject_submodule_commit(in.history, possible_mono_parents, env.inject_ok)
         IN IF Waits(InjectResult(r))
            THEN [returned |-> AfterWait(InjectResult(r), env.wait_ok), injected |-> r.mono,
                  importer |-> <<"new", "wait">>]
            ELSE [returned |-> InjectResult(r), injected |-> r.mono, importer |-> <<"new">>]

\* The histories of HEAD: at most one commit that is not a mono commit on
\* top of a chain of mono commits, each a valid splice point or not.
RECURSIVE MonoChains(_)
MonoChains(n) ==
    IF n = 0 THEN { <<>> }
    ELSE LET shorter == MonoChains(n - 1)
         IN shorter \cup { <<[known |-> TRUE, valid |-> v]>> \o c :
                            v \in BOOLEAN, c \in { d \in shorter : Len(d) = n - 1 } }

HeadHistories ==
    MonoChains(MaxNodes) \cup
    { <<[known |-> FALSE, valid |-> FALSE]>> \o c : c \in MonoChains(MaxNodes - 1) }

InitInject ==
    /\ PushIdle
    /\ MsgIdle
    /\ RefsIdle
    /\ GraphIdle
    /\ ResolveIdle
    /\ CreateIdle
    /\ inject_in \in { Some([ref_found |-> f, thin_known |-> t, head_ok |-> h, history |-> c]) :
                         f \in BOOLEAN, t \in BOOLEAN, h \in BOOLEAN, c \in HeadHistories }
    /\ inject_call = None

\* One call of expand_submodule_ref_onto_head.
ExpandSubmoduleRefOntoHead ==
    /\ IsSome(inject_in)
    /\ inject_call = None
    /\ \E w \in BOOLEAN, m \in BOOLEAN, j \in BOOLEAN, a \in BOOLEAN :
         LET env == [walk_ok |-> w, importer_ok |-> m, inject_ok |-> j, wait_ok |-> a]
             out == expand_submodule_ref_onto_head(Unwrap(inject_in), env)
         IN inject_call' = Some([env |-> env, returned |-> out.returned,
                                 injected |-> out.injected, importer |-> out.importer])
    /\ UNCHANGED <<inject_in, pushVars, msgVars, refVars, graphVars, resolveVars, createVars>>

NextInject == ExpandSubmoduleRefOntoHead

SpecInject == InitInject /\ [][NextInject]_vars

\* The call got as far as looking for a mono commit to expand onto.
InjectSearched ==
    /\ IsSome(inject_call)
    /\ Unwrap(inject_in).ref_found
    /\ Unwrap(inject_in).thin_known
    /\ Unwrap(inject_in).head_ok
    /\ Unwrap(inject_call).env.walk_ok
    /\ Unwrap(inject_call).env.importer_ok

\* No known mono ancestor of HEAD is a valid splice point.
NoSplicePoint ==
    \A i \in DOMAIN Unwrap(inject_in).history :
        ~(Unwrap(inject_in).history[i].known /\ Unwrap(inject_in).history[i].valid)

\* C28 (as stated): when no known mono ancestor of HEAD is a valid splice
\* point, expand_submodule_ref_onto_head fails with the 'No common history
\* with HEAD' error and records no injected mono commit.
C28_NoCommonHistory ==
    (InjectSearched /\ NoSplicePoint) =>
        /\ Unwrap(inject_call).returned = NoCommonHistory
        /\ Unwrap(inject_call).injected = None

\* C28 (amended): when no known mono ancestor of HEAD is a valid splice
\* point, expand_submodule_ref_onto_head records no injected mono commit and
\* fails: with the error of expander.wait() when that fails, with the 'No
\* common history with HEAD' error otherwise.
C28_NoCommonHistoryUnlessWaitFails ==
    (InjectSearched /\ NoSplicePoint) =>
        /\ Unwrap(inject_call).injected = None
        /\ Unwrap(inject_call).returned # "ok"
        /\ Unwrap(inject_call).returned =
             IF Unwrap(inject_call).env.wait_ok THEN NoCommonHistory ELSE ErrWait

\* HEAD has known mono ancestors, none of them a valid splice point, and the
\* call has returned the no-common-history error.
C28_Witness ==
    /\ InjectSearched
    /\ NoSplicePoint
    /\ \E i \in DOMAIN Unwrap(inject_in).history : Unwrap(inject_in).history[i].known
    /\ Unwrap(inject_call).env.wait_ok
    /\ Unwrap(inject_call).returned = NoCommonHistory

\* The ThinCommits with a first parent, and the MonoRepoCommits whose first
\* parent is a mono commit.
ThinChildren == { n \in 1..Len(thin_commits) : thin_commits[n].parents # <<>> }
MonoChildren == { n \in 1..Len(mono_nodes) : IsSome(FirstMonoParent(mono_nodes, n)) }

\* The commit holds the set object its first parent holds.
ThinSharesParentSet(n) ==
    ThinPathsRc(thin_commits, n) = ThinPathsRc(thin_commits, thin_commits[n].parents[1])
MonoSharesParentSet(n) ==
    MonoPathsRc(mono_nodes, n) = MonoPathsRc(mono_nodes, Unwrap(FirstMonoParent(mono_nodes, n)))

\* Every commit still has the set its own new_rc computed: the commits built
\* on it have not changed it.
ParentsSetsUntouched ==
    /\ \A n \in 1..Len(thin_commits) :
         thin_commits[n].submodule_paths =
            ThinSubmodulePaths(thin_commits, thin_commits[n].parents, thin_commits[n].submodule_bumps)
    /\ \A n \in 1..Len(mono_nodes) :
         mono_nodes[n].submodule_paths =
            MonoRepoCommit_new_rc(mono_nodes, mono_nodes[n].parents, mono_nodes[n].top_bump,
                                  mono_nodes[n].submodule_bumps).submodule_paths

ProcessedOk ==
    { i \in 1..Len(exported) :
        ~(i = Len(exported) /\ IsSome(last_split) /\ Unwrap(last_split).err # "none") }

\* C32: every exported commit processed without error is recorded in
\* imported_mono_commits, one without file changes included, and an exported
\* commit whose parents are all in the cache or processed earlier in the run
\* does not fail with 'Unknown mono commit parent'.
C32_ProcessedCommitsAreRecorded ==
    /\ \A i \in ProcessedOk : exported[i].id \in DOMAIN imported_mono_commits
    /\ IsSome(last_split) =>
         LET N == Unwrap(last_split)
         IN (\A j \in 1..Len(N.parents) :
                \/ N.parents[j] \in DOMAIN monorepo_commits
                \/ \E i \in ProcessedOk : exported[i].id = N.parents[j] /\ exported[i].id # N.id)
            => N.err # ErrUnknownParent

\* ---------------------------------------------------------------------------
\* The collapse of the push queue on its own
\* ---------------------------------------------------------------------------

\* The entries the export loop may queue for the top repository: commit 201
\* is written onto the cache's top commit 12, 202 onto 201 and 203 onto 202
\* (the id of a commit fixes its parents), each pushed without a topic or
\* with topic X.  Two exported mono commits that differ only in their footer
\* lines split into the same commit, so a commit may be queued twice.
QueueEntries ==
    { [push_url |-> TopPushUrl, topic |-> t, commit_id |-> c[1], parents |-> <<c[2]>>] :
        t \in {None, Some(<<"X">>)}, c \in {<<201, 12>>, <<202, 201>>, <<203, 202>>} }

\* The queues the export loop may leave: a commit is written, and queued,
\* after the commit it is written onto.
PushQueues ==
    { q \in UNION { [1..n -> QueueEntries] : n \in 0..MaxQueue } :
        \A j \in 1..Len(q) :
            q[j].parents[1] = 12 \/ \E i \in 1..(j - 1) : q[i].commit_id = q[j].parents[1] }

\* push() has read the export stream and waited on fast-import.
InitCollapse ==
    /\ pc = "collapse"
    /\ result = "none"
    /\ dry_run \in BOOLEAN
    /\ config = {<<"a">>}
    /\ mono_nodes = <<CacheNode1, CacheNode2, CacheNode3>>
    /\ monorepo_commits = <<1, 2, 3>>
    /\ exported = <<>>
    /\ n_entries = 0
    /\ imported_mono_commits = <<>>
    /\ imported_submod_commits = <<>>
    /\ fast_import = <<>>
    /\ to_push_metadata \in PushQueues
    /\ uncollapsed = <<>>
    /\ last_split = None
    /\ warnings = 0
    /\ git_push_log = <<>>
    /\ failed_pushes = 0
    /\ printed = <<>>
    /\ MsgIdle
    /\ RefsIdle
    /\ GraphIdle
    /\ ResolveIdle
    /\ CreateIdle
    /\ InjectIdle

NextCollapse ==
    \/ Collapse
    \/ PrintCommands
    \/ GitPush
    \/ PushReturn

SpecCollapse == InitCollapse /\ [][NextCollapse]_vars

\* The indexes of the entries the collapse kept, in queue order.
KeptIndexes == SelectSeq([i \in 1..Len(uncollapsed) |-> i], LAMBDA i : uncollapsed[i].kept)

\* The commits reached from the parents of a queue entry.
ProperAncestors(e) ==
    ReachedFrom({ e.parents[p] : p \in 1..Len(e.parents) }, Len(uncollapsed))

\* In the queue as it was before the collapse no commit comes after one of
\* its descendants.
QueueParentsFirst ==
    \A i, j \in 1..Len(uncollapsed) :
        i < j => Entry(j).commit_id \notin ProperAncestors(Entry(i))

\* After the collapse the queue is the kept entries of the queue before it,
\* in their order, and the last entry of a non-empty queue is kept.
KeepsOrderAndLast ==
    /\ to_push_metadata = [n \in 1..Len(KeptIndexes) |-> Entry(KeptIndexes[n])]
    /\ uncollapsed # <<>> =>
          /\ uncollapsed[Len(uncollapsed)].kept
          /\ to_push_metadata[Len(to_push_metadata)] = Entry(Len(uncollapsed))

\* After the collapse no push is scheduled after the push of a descendant
\* of its commit.
NeverAfterDescendant ==
    \A a, b \in 1..Len(to_push_metadata) :
        a < b => to_push_metadata[b].commit_id \notin ProperAncestors(to_push_metadata[a])

\* C33 (as stated): the collapse keeps the order of the entries and the
\* last entry, so no push is scheduled after the push of a descendant of
\* its commit.
C33_OrderedSoNeverAfterDescendant ==
    Collapsed => KeepsOrderAndLast /\ NeverAfterDescendant

\* C33 (amended): the collapse keeps the order of the entries and the last
\* entry; no push is scheduled after the push of a descendant of its commit
\* when the queue before the collapse had none.
C33_OrderedAsTheQueueWas ==
    Collapsed => KeepsOrderAndLast /\ (QueueParentsFirst => NeverAfterDescendant)

\* A queue of three entries, parents first, of which the collapse dropped
\* the second and kept the other two in their order.
C33_Witness ==
    /\ Collapsed
    /\ Len(uncollapsed) = 3
    /\ QueueParentsFirst
    /\ uncollapsed[1].kept /\ ~uncollapsed[2].kept /\ uncollapsed[3].kept
    /\ to_push_metadata = <<Entry(1), Entry(3)>>

\* ---------------------------------------------------------------------------
\* Properties of refilter and update_refs
\* ---------------------------------------------------------------------------

\* Every ref of the top namespace that points straight to a commit points to
\* a key of top_to_mono_map.
AllObjectTipsKnown ==
    \A n \in DOMAIN refs :
        (n.ns = "top" /\ refs[n].kind = "Object" /\ Kind(refs[n].id) = "Commit")
            => refs[n].id \in DOMAIN top_to_mono_map

\* C34: a refilter that starts when every object tip of the top namespace is
\* a key of top_to_mono_map returns after reading the refs: it starts no
\* walk and no fast-import, the cache and the refs are as before, and no
\* ref edit is made.
C34_NothingToDoChangesNothing ==
    [][ (/\ rpc = "idle"
         /\ IsSome(operation')
         /\ Unwrap(operation').name = "refilter"
         /\ AllObjectTipsKnown)
        => /\ rpc' \in {"done", "failed"}
           /\ stop_commits' = None
           /\ run_history' = <<"scan">>
           /\ top_to_mono_map' = top_to_mono_map
           /\ refs' = refs
           /\ ref_edits' = ref_edits ]_vars

\* refilter has returned Ok right after reading the refs, with object tips
\* that are all in the cache, a symbolic tip and an origin ref whose tip is
\* gone.
C34_Witness ==
    /\ RefilterReturnedOk
    /\ run_history = <<"scan">>
    /\ AllObjectTipsKnown
    /\ toprepo_object_tip_ids # <<>>
    /\ toprepo_symbolic_tips # <<>>
    /\ \E name \in DOMAIN old_origin_refs : name \notin new_origin_ref_names

\* The symbolic tips whose origin ref, as read at the start of the run,
\* already points at the translation of the tip's target.
SettledSymbolicNames ==
    { Unwrap(input_ref_to_output_ref(toprepo_symbolic_tips[i][1])) :
        i \in { k \in 1..Len(toprepo_symbolic_tips) :
                  LET origin_target_name == input_ref_to_output_ref(toprepo_symbolic_tips[k][2])
                      origin_link_name == Unwrap(input_ref_to_output_ref(toprepo_symbolic_tips[k][1]))
                  IN /\ IsSome(origin_target_name)
                     /\ OldTarget(old_origin_refs, origin_link_name)
                            = Some(Symbolic(Unwrap(origin_target_name))) } }

\* C35: the edits of update_refs name every ref at most once, so that no ref
\* is both updated and deleted in one transaction; there is no edit for a
\* symbolic origin ref whose target, as the run read it, is already the
\* translated target; and the transaction is submitted exactly when there
\* is an edit.
C35_OneEditPerRefNoneWhenSettled ==
    "update_refs" \in Range(run_history) =>
        /\ \A i, j \in 1..Len(ref_edits) : ref_edits[i].name = ref_edits[j].name => i = j
        /\ \A i \in 1..Len(ref_edits) :
              /\ ref_edits[i].name \notin SettledSymbolicNames
              /\ ref_edits[i].change = "Update" =>
                    OldTarget(old_origin_refs, ref_edits[i].name) # Some(ref_edits[i].new)
        /\ ("edit_references" \in Range(run_history)) <=> (ref_edits # <<>>)

\* update_refs has run over a symbolic tip that was already settled, found
\* nothing to edit and submitted no transaction.
C35_Witness ==
    /\ "update_refs" \in Range(run_history)
    /\ SettledSymbolicNames # {}
    /\ ref_edits = <<>>
    /\ "edit_references" \notin Range(run_history)
    /\ rpc = "done"

\* C36: a call of resolve_push_repo returns after at most as many
\* iterations as the path is long, rel_path starting as the path and getting
\* strictly shorter with every iteration; and when it returns Ok, the mount
\* path joined with the relative path is the path given.
C36_TerminatesAndPartitionsPath ==
    \A k \in 1..Len(resolve_calls) :
        LET r == resolve_calls[k].returned
            path == Unwrap(resolve_in).path
        IN /\ r.rel_paths[1] = path
           /\ r.rel_paths[Len(r.rel_paths)] = r.rel_path
           /\ \A i \in 1..(Len(r.rel_paths) - 1) :
                  Len(r.rel_paths[i + 1]) < Len(r.rel_paths[i])
           /\ Len(r.rel_paths) <= Len(path) + 1
           /\ r.err = "none" => PathJoin(r.submod_path, r.rel_path) = path

\* A call went through the loop four times, down three levels of
\* submodules, and returned Ok.
C36_Witness ==
    \E k \in 1..Len(resolve_calls) :
        /\ resolve_calls[k].returned.err = "none"
        /\ Len(resolve_calls[k].returned.rel_paths) = 4
        /\ resolve_calls[k].returned.submod_path # <<>>
        /\ resolve_calls[k].returned.rel_path # Unwrap(resolve_in).path

\* C37: in a call of expand_submodule_ref_onto_head the fast-import child,
\* once started, has been waited on exactly once when the call returns,
\* whatever the injection returned, and never without having been started;
\* and when the wait fails its error is what the call returns.
C37_ImporterAlwaysWaitedOn ==
    IsSome(inject_call) =>
        LET call == Unwrap(inject_call)
        IN /\ call.importer \in { <<>>, <<"new", "wait">> }
           /\ InjectSearched <=> call.importer # <<>>
           /\ (call.importer # <<>> /\ ~call.env.wait_ok) => call.returned = ErrWait

\* The injection failed although a splice point was there, and the child,
\* waited on all the same, failed too: the call returned the error of the
\* wait.
C37_Witness ==
    /\ InjectSearched
    /\ ~NoSplicePoint
    /\ ~Unwrap(inject_call).env.inject_ok
    /\ ~Unwrap(inject_call).env.wait_ok
    /\ Unwrap(inject_call).importer = <<"new", "wait">>
    /\ Unwrap(inject_call).returned = ErrWait

====
